---- MODULE Spec2Model ----
(***************************************************************************)
(* Update classification of Dependabot pull requests, as implemented twice *)
(* in the repository: the Groovy shared library                            *)
(* (jenkins/pipelines/shared-libraries/dependabot-helpers.groovy) and the  *)
(* shell categorizer (the "Categorize Updates Script" carried in           *)
(* scripts/batch-merge.sh).                                                *)
(*                                                                         *)
(* Text is modelled as a sequence of one-character strings, so that        *)
(* splitting, integer parsing, substring and regular-expression matching   *)
(* are computed on the characters as the code computes them.               *)
(***************************************************************************)
EXTENDS Integers, Sequences, FiniteSets, TLC

VARIABLES op, input, output, pc, calls, prLabels, prComments

\* the sample Express application (src/index.js)
VARIABLES requests, running, request, response, external, issued, clock, env, errorLog

classifierVars == <<pc, calls, op, input, output, prLabels, prComments>>

serverVars == <<requests, running, request, response, external, issued, clock, env, errorLog>>

\* one build of a Jenkins pipeline (src/Jenkinsfile.groovy, src/unnamed/part_000,
\* src/jenkins/pipelines/minor-patch.groovy, src/jenkins/pipelines/major-update.groovy)
VARIABLES stageIndex, position, pipeline, params, buildEnv, currentBuild, buildLog

buildVars == <<stageIndex, position, pipeline, params, buildEnv, currentBuild, buildLog>>

\* one run of src/scripts/batch-merge.sh (its first script, lines 1-322)
VARIABLES batchPc, args, pulls, DEPENDABOT_PRS, cursor, loopCounts, effects, handled, batchExit

batchVars == <<batchPc, args, pulls, DEPENDABOT_PRS, cursor, loopCounts, effects, handled,
               batchExit>>

\* one run of src/scripts/rollback.sh
VARIABLES rollbackPc, rollbackArgs, rollbackStatus, rollbackEffects, rollbackExit

rollbackVars == <<rollbackPc, rollbackArgs, rollbackStatus, rollbackEffects, rollbackExit>>

scriptVars == <<batchVars, rollbackVars>>

vars == <<classifierVars, serverVars, buildVars, scriptVars>>

(***************************************************************************)
(* Bounds of the model.                                                    *)
(***************************************************************************)
\* longest version string of the exhaustively enumerated version strings
MaxVerLen == 3
\* longest changed-file list of the exhaustively enumerated file lists
MaxFiles == 2
MaxCalls == 2
\* most requests the server receives in one behaviour
MaxRequests == 3
\* most times the clock advances, by an hour each time
MaxTicks == 1
\* most open pull requests the API returns to the batch merge script
MaxPRs == 2

(***************************************************************************)
(* Text helpers.                                                           *)
(***************************************************************************)
Digits == {"0", "1", "2", "3", "4", "5", "6", "7", "8", "9"}

DigitVal(c) ==
    CASE c = "0" -> 0 [] c = "1" -> 1 [] c = "2" -> 2 [] c = "3" -> 3
      [] c = "4" -> 4 [] c = "5" -> 5 [] c = "6" -> 6 [] c = "7" -> 7
      [] c = "8" -> 8 [] c = "9" -> 9

\* [\w\-\/] of the Groovy package pattern
WordChars ==
    {"a", "b", "c", "d", "e", "f", "g", "h", "i", "j", "k", "l", "m", "n", "o", "p", "q", "r", "s", "t", "u", "v", "w", "x", "y", "z"} \cup
    {"A", "B", "C", "D", "E", "F", "G", "H", "I", "J", "K", "L", "M", "N", "O", "P", "Q", "R", "S", "T", "U", "V", "W", "X", "Y", "Z"} \cup
    Digits \cup {"_", "-", "/"}

\* a reference that was never assigned (Groovy null); no text equals it
Null == <<"null">>

\* String.contains(sub) in Groovy, [[ "$s" == *"sub"* ]] in bash
Contains(s, sub) ==
    \E i \in 0..(Len(s) - Len(sub)) : SubSeq(s, i + 1, i + Len(sub)) = sub

\* a Groovy switch case ~/.*suffix$/ : the whole name matches, so it ends with the suffix
EndsWith(s, suf) ==
    /\ Len(s) >= Len(suf)
    /\ SubSeq(s, Len(s) - Len(suf) + 1, Len(s)) = suf

\* grep -q "pat" on one line: pat occurs somewhere, "." matching any character
GrepLine(s, pat) ==
    \E i \in 0..(Len(s) - Len(pat)) :
        \A k \in 1..Len(pat) : pat[k] = "." \/ pat[k] = s[i + k]

\* the fields of s between the dots, empty fields included
RECURSIVE SplitDot(_)
SplitDot(s) ==
    IF \A i \in 1..Len(s) : s[i] # "."
    THEN <<s>>
    ELSE LET k == CHOOSE i \in 1..Len(s) :
                     s[i] = "." /\ \A j \in 1..(i - 1) : s[j] # "."
         IN  <<SubSeq(s, 1, k - 1)>> \o SplitDot(SubSeq(s, k + 1, Len(s)))

\* the longest prefix of s made of digits and dots: the group \([0-9.]*\) of sed
\* and ([\d\.]+) of the Groovy pattern
RECURSIVE DigitDotPrefix(_)
DigitDotPrefix(s) ==
    IF s # <<>> /\ (s[1] \in Digits \/ s[1] = ".")
    THEN <<s[1]>> \o DigitDotPrefix(Tail(s))
    ELSE <<>>

\* the longest prefix of s made of [\w\-\/]
RECURSIVE WordPrefix(_)
WordPrefix(s) ==
    IF s # <<>> /\ s[1] \in WordChars
    THEN <<s[1]>> \o WordPrefix(Tail(s))
    ELSE <<>>

(***************************************************************************)
(* Literals of the source, as text.                                        *)
(***************************************************************************)
\* update types
major == <<"m", "a", "j", "o", "r">>
minor == <<"m", "i", "n", "o", "r">>
patch == <<"p", "a", "t", "c", "h">>
unknown == <<"u", "n", "k", "n", "o", "w", "n">>
\* ecosystems
npm == <<"n", "p", "m">>
pip == <<"p", "i", "p">>
maven == <<"m", "a", "v", "e", "n">>
gradle == <<"g", "r", "a", "d", "l", "e">>
go == <<"g", "o">>
bundler == <<"b", "u", "n", "d", "l", "e", "r">>
nuget == <<"n", "u", "g", "e", "t">>
docker == <<"d", "o", "c", "k", "e", "r">>
github_actions == <<"g", "i", "t", "h", "u", "b", "-", "a", "c", "t", "i", "o", "n", "s">>
\* risk levels
minimal == <<"m", "i", "n", "i", "m", "a", "l">>
low == <<"l", "o", "w">>
medium == <<"m", "e", "d", "i", "u", "m">>
high == <<"h", "i", "g", "h">>
\* the shell's booleans
true == <<"t", "r", "u", "e">>
false == <<"f", "a", "l", "s", "e">>
\* file-name patterns of the two ecosystem detectors
package_json == <<"p", "a", "c", "k", "a", "g", "e", ".", "j", "s", "o", "n">>
package_lock_json == <<"p", "a", "c", "k", "a", "g", "e", "-", "l", "o", "c", "k", ".", "j", "s", "o", "n">>
requirements_txt == <<"r", "e", "q", "u", "i", "r", "e", "m", "e", "n", "t", "s", ".", "t", "x", "t">>
Pipfile == <<"P", "i", "p", "f", "i", "l", "e">>
setup_py == <<"s", "e", "t", "u", "p", ".", "p", "y">>
pom_xml == <<"p", "o", "m", ".", "x", "m", "l">>
build_gradle == <<"b", "u", "i", "l", "d", ".", "g", "r", "a", "d", "l", "e">>
go_mod == <<"g", "o", ".", "m", "o", "d">>
Gemfile == <<"G", "e", "m", "f", "i", "l", "e">>
dot_csproj == <<".", "c", "s", "p", "r", "o", "j">>
Dockerfile == <<"D", "o", "c", "k", "e", "r", "f", "i", "l", "e">>
github_workflows == <<".", "g", "i", "t", "h", "u", "b", "/", "w", "o", "r", "k", "f", "l", "o", "w", "s">>
\* words the classifiers look for
security == <<"s", "e", "c", "u", "r", "i", "t", "y">>
vulnerability == <<"v", "u", "l", "n", "e", "r", "a", "b", "i", "l", "i", "t", "y">>
dependencies == <<"d", "e", "p", "e", "n", "d", "e", "n", "c", "i", "e", "s">>
kubernetes == <<"k", "u", "b", "e", "r", "n", "e", "t", "e", "s">>
express == <<"e", "x", "p", "r", "e", "s", "s">>
react == <<"r", "e", "a", "c", "t">>
angular == <<"a", "n", "g", "u", "l", "a", "r">>
vue == <<"v", "u", "e">>
django == <<"d", "j", "a", "n", "g", "o">>
spring == <<"s", "p", "r", "i", "n", "g">>
rails == <<"r", "a", "i", "l", "s">>
\* label suffixes and labels the categorizer builds
update_suffix == <<"-", "u", "p", "d", "a", "t", "e">>
risk_suffix == <<"-", "r", "i", "s", "k">>
auto_merge_candidate == <<"a", "u", "t", "o", "-", "m", "e", "r", "g", "e", "-", "c", "a", "n", "d", "i", "d", "a", "t", "e">>
\* deployment strategies
rolling == <<"r", "o", "l", "l", "i", "n", "g">>
canary == <<"c", "a", "n", "a", "r", "y">>
blue_green == <<"b", "l", "u", "e", "-", "g", "r", "e", "e", "n">>
staging == <<"s", "t", "a", "g", "i", "n", "g">>
production == <<"p", "r", "o", "d", "u", "c", "t", "i", "o", "n">>
success == <<"s", "u", "c", "c", "e", "s", "s">>
failure == <<"f", "a", "i", "l", "u", "r", "e">>
unstable == <<"u", "n", "s", "t", "a", "b", "l", "e">>
message_passed == <<"A", "l", "l", " ", "c", "h", "e", "c", "k", "s", " ", "p", "a", "s", "s", "e", "d">>
message_failed == <<"T", "e", "s", "t", "s", " ", "f", "a", "i", "l", "e", "d">>
\* the three status signs, each one character of the comment
check_mark == <<"check mark">>
cross_mark == <<"cross mark">>
warning_sign == <<"warning sign">>
\* the fixed words of a PR title that the patterns anchor on
Bump_ == <<"B", "u", "m", "p", " ">>
from_ == <<"f", "r", "o", "m", " ">>
to_ == <<"t", "o", " ">>
_from == <<" ", "f", "r", "o", "m">>
_to_ == <<" ", "t", "o", " ">>
comma == <<",">>

\* what a thrown java.lang.NumberFormatException leaves as the outcome of a call
NumberFormatException == <<"NumberFormatException">>

(***************************************************************************)
(* Groovy shared library: dependabot-helpers.groovy                        *)
(***************************************************************************)
NonEmpty(t) == t # <<>>

\* String.tokenize('.'): the non-empty pieces between the dots
tokenize(s) == SelectSeq(SplitDot(s), NonEmpty)

\* whether (token as Integer) succeeds; the tokens of the model are far shorter
\* than the ten digits at which Integer overflows
IsInteger(t) == t # <<>> /\ \A i \in 1..Len(t) : t[i] \in Digits

\* the value of (token as Integer): leading zeros do not count
RECURSIVE IntegerValue(_)
IntegerValue(t) ==
    IF t = <<>> THEN 0
    ELSE IntegerValue(SubSeq(t, 1, Len(t) - 1)) * 10 + DigitVal(t[Len(t)])

\* a[i] != b[i] in Groovy for 1-based i: an index past the end reads null, and
\* null differs from every Integer and equals null
NotEqualAt(a, b, i) ==
    IF i > Len(a) \/ i > Len(b)
    THEN (i > Len(a)) # (i > Len(b))
    ELSE a[i] # b[i]

determineUpdateType_MinorWhenShort(oldVersion, newVersion) ==
    LET oldTokens == tokenize(oldVersion)
        newTokens == tokenize(newVersion)
    IN  IF \/ \E i \in 1..Len(oldTokens) : ~IsInteger(oldTokens[i])
           \/ \E i \in 1..Len(newTokens) : ~IsInteger(newTokens[i])
        THEN NumberFormatException
        ELSE LET oldParts == [i \in 1..Len(oldTokens) |-> IntegerValue(oldTokens[i])]
                 newParts == [i \in 1..Len(newTokens) |-> IntegerValue(newTokens[i])]
             IN  IF NotEqualAt(oldParts, newParts, 1)
                 THEN major
                 ELSE IF /\ Len(oldParts) > 1
                         /\ Len(newParts) > 1
                         /\ oldParts[2] = newParts[2]
                      THEN patch
                      ELSE minor

determineUpdateType(oldVersion, newVersion) ==
    LET oldTokens == tokenize(oldVersion)
        newTokens == tokenize(newVersion)
    IN  IF \/ \E i \in 1..Len(oldTokens) : ~IsInteger(oldTokens[i])
           \/ \E i \in 1..Len(newTokens) : ~IsInteger(newTokens[i])
        THEN NumberFormatException
        ELSE LET oldParts == [i \in 1..Len(oldTokens) |-> IntegerValue(oldTokens[i])]
                 newParts == [i \in 1..Len(newTokens) |-> IntegerValue(newTokens[i])]
             IN  IF NotEqualAt(oldParts, newParts, 1)
                 THEN major
                 ELSE IF /\ Len(oldParts) > 1
                         /\ Len(newParts) > 1
                         /\ oldParts[2] # newParts[2]
                      THEN minor
                      ELSE patch

\* the switch of detectEcosystem on one file name: the first case that matches
FileCase(filename) ==
    CASE EndsWith(filename, package_json) \/ EndsWith(filename, package_lock_json) -> npm
      [] EndsWith(filename, requirements_txt) \/ EndsWith(filename, Pipfile)
            \/ EndsWith(filename, setup_py) -> pip
      [] EndsWith(filename, pom_xml) -> maven
      [] EndsWith(filename, build_gradle) -> gradle
      [] EndsWith(filename, go_mod) -> go
      [] EndsWith(filename, Gemfile) -> bundler
      [] EndsWith(filename, dot_csproj) -> nuget
      [] EndsWith(filename, Dockerfile) -> docker
      [] OTHER -> Null

\* the loop over the files of the PR, in their order: the first file with a case
detectEcosystem(files) ==
    IF \E i \in 1..Len(files) : FileCase(files[i]) # Null
    THEN LET k == CHOOSE i \in 1..Len(files) :
                     /\ FileCase(files[i]) # Null
                     /\ \A j \in 1..(i - 1) : FileCase(files[j]) = Null
         IN  FileCase(files[k])
    ELSE unknown

criticalPackages == {express, react, angular, vue, django, spring}

Min(a, b) == IF a < b THEN a ELSE b
Max(a, b) == IF a > b THEN a ELSE b

\* calculateRiskScore with the security adjustment adding 10 for every update type
calculateRiskScore_SecurityAlwaysAdds(updateInfo) ==
    LET base == CASE updateInfo.updateType = major -> 70
                  [] updateInfo.updateType = minor -> 30
                  [] updateInfo.updateType = patch -> 10
                  [] OTHER -> 0
        sec == IF updateInfo.isSecurityUpdate THEN 10 ELSE 0
        crit == IF /\ updateInfo.packageName # Null
                   /\ \E p \in criticalPackages : Contains(updateInfo.packageName, p)
                THEN 20
                ELSE 0
    IN  Min(100, Max(0, base + sec + crit))

calculateRiskScore(updateInfo) ==
    LET base == CASE updateInfo.updateType = major -> 70
                  [] updateInfo.updateType = minor -> 30
                  [] updateInfo.updateType = patch -> 10
                  [] OTHER -> 0
        sec == IF updateInfo.isSecurityUpdate
               THEN IF updateInfo.updateType = patch THEN -5 ELSE 10
               ELSE 0
        crit == IF /\ updateInfo.packageName # Null
                   /\ \E p \in criticalPackages : Contains(updateInfo.packageName, p)
                THEN 20
                ELSE 0
    IN  Min(100, Max(0, base + sec + crit))

\* shouldAutoMerge without the early return on failed tests
shouldAutoMerge_IgnoresTests(updateInfo, testResults) ==
    IF updateInfo.updateType = major THEN FALSE
    ELSE calculateRiskScore(updateInfo) < 40

shouldAutoMerge(updateInfo, testResults) ==
    IF updateInfo.updateType = major THEN FALSE
    ELSE IF ~testResults.allPassed THEN FALSE
    ELSE calculateRiskScore(updateInfo) < 40

\* The three plans getDeploymentStrategy returns; canaryPercentage is a key of
\* the canary plan only.
getDeploymentStrategy_BlueGreenFrom70(updateInfo) ==
    LET riskScore == calculateRiskScore(updateInfo)
    IN  IF riskScore >= 70
        THEN [strategy |-> blue_green,
              stages |-> <<staging, canary, production>>,
              rollbackEnabled |-> TRUE,
              approvalRequired |-> TRUE]
        ELSE IF riskScore > 40
        THEN [strategy |-> canary,
              stages |-> <<staging, production>>,
              canaryPercentage |-> 10,
              rollbackEnabled |-> TRUE,
              approvalRequired |-> FALSE]
        ELSE [strategy |-> rolling,
              stages |-> <<production>>,
              rollbackEnabled |-> TRUE,
              approvalRequired |-> FALSE]

getDeploymentStrategy_CanaryFrom40(updateInfo) ==
    LET riskScore == calculateRiskScore(updateInfo)
    IN  IF riskScore > 70
        THEN [strategy |-> blue_green,
              stages |-> <<staging, canary, production>>,
              rollbackEnabled |-> TRUE,
              approvalRequired |-> TRUE]
        ELSE IF riskScore >= 40
        THEN [strategy |-> canary,
              stages |-> <<staging, production>>,
              canaryPercentage |-> 10,
              rollbackEnabled |-> TRUE,
              approvalRequired |-> FALSE]
        ELSE [strategy |-> rolling,
              stages |-> <<production>>,
              rollbackEnabled |-> TRUE,
              approvalRequired |-> FALSE]

getDeploymentStrategy(updateInfo) ==
    LET riskScore == calculateRiskScore(updateInfo)
    IN  IF riskScore > 70
        THEN [strategy |-> blue_green,
              stages |-> <<staging, canary, production>>,
              rollbackEnabled |-> TRUE,
              approvalRequired |-> TRUE]
        ELSE IF riskScore > 40
        THEN [strategy |-> canary,
              stages |-> <<staging, production>>,
              canaryPercentage |-> 10,
              rollbackEnabled |-> TRUE,
              approvalRequired |-> FALSE]
        ELSE [strategy |-> rolling,
              stages |-> <<production>>,
              rollbackEnabled |-> TRUE,
              approvalRequired |-> FALSE]

\* The comment updatePRStatus posts to the PR: the sign of the status, the
\* status and the message. The build URL and the time of day, which the
\* comment also carries, are left out.
updatePRStatus(status, message) ==
    LET statusEmoji == IF status = success THEN check_mark
                       ELSE IF status = failure THEN cross_mark
                       ELSE warning_sign
    IN  [statusEmoji |-> statusEmoji, status |-> status, message |-> message]

(***************************************************************************)
(* Shell categorizer: the Categorize Updates Script in batch-merge.sh      *)
(***************************************************************************)
\* IFS='.' read -r -a parts <<< "$version": the fields between the dots; an
\* empty string gives no field and one trailing empty field is dropped
read_parts(version) ==
    IF version = <<>> THEN <<>>
    ELSE LET fields == SplitDot(version)
         IN  IF fields[Len(fields)] = <<>>
             THEN SubSeq(fields, 1, Len(fields) - 1)
             ELSE fields

\* "${parts[i]}" for 0-based i: an unset element expands to the empty string
Element(parts, i) == IF i + 1 <= Len(parts) THEN parts[i + 1] ELSE <<>>

determine_update_type(old_version, new_version) ==
    LET old_parts == read_parts(old_version)
        new_parts == read_parts(new_version)
    IN  IF Element(old_parts, 0) # Element(new_parts, 0) THEN major
        ELSE IF Element(old_parts, 1) # Element(new_parts, 1) THEN minor
        ELSE patch

critical_packages == {react, express, django, rails, spring, angular, vue}

\* calculate_risk_score without the cap at 100
calculate_risk_score_NoCap(update_type, is_security, package_name, ecosystem) ==
    (CASE update_type = major -> 70
       [] update_type = minor -> 30
       [] update_type = patch -> 10
       [] OTHER -> 0)
      + (IF is_security = true THEN (IF update_type = patch THEN -5 ELSE 10) ELSE 0)
      + (IF \E pkg \in critical_packages : Contains(package_name, pkg) THEN 20 ELSE 0)
      + (IF ecosystem = docker \/ Contains(package_name, kubernetes) THEN 15 ELSE 0)

calculate_risk_score_PatchBase40(update_type, is_security, package_name, ecosystem) ==
    LET base == CASE update_type = major -> 70
                  [] update_type = minor -> 30
                  [] update_type = patch -> 40
                  [] OTHER -> 0
        sec == IF is_security = true
               THEN IF update_type = patch THEN -5 ELSE 10
               ELSE 0
        crit == IF \E pkg \in critical_packages : Contains(package_name, pkg)
                THEN 20
                ELSE 0
        infra == IF ecosystem = docker \/ Contains(package_name, kubernetes)
                 THEN 15
                 ELSE 0
        risk_score == base + sec + crit + infra
    IN  IF risk_score > 100 THEN 100 ELSE risk_score

calculate_risk_score(update_type, is_security, package_name, ecosystem) ==
    LET base == CASE update_type = major -> 70
                  [] update_type = minor -> 30
                  [] update_type = patch -> 10
                  [] OTHER -> 0
        sec == IF is_security = true
               THEN IF update_type = patch THEN -5 ELSE 10
               ELSE 0
        crit == IF \E pkg \in critical_packages : Contains(package_name, pkg)
                THEN 20
                ELSE 0
        infra == IF ecosystem = docker \/ Contains(package_name, kubernetes)
                 THEN 15
                 ELSE 0
        risk_score == base + sec + crit + infra
    IN  IF risk_score > 100 THEN 100 ELSE risk_score

\* UPDATE_TYPE of the main script, from the versions cut out of the title
UPDATE_TYPE(OLD_VERSION, NEW_VERSION, PR_LABELS) ==
    IF OLD_VERSION # <<>> /\ NEW_VERSION # <<>>
    THEN determine_update_type(OLD_VERSION, NEW_VERSION)
    ELSE IF Contains(PR_LABELS, dependencies) THEN unknown ELSE <<>>

IS_SECURITY(PR_LABELS, PR_BODY) ==
    IF \/ Contains(PR_LABELS, security)
       \/ Contains(PR_BODY, security)
       \/ Contains(PR_BODY, vulnerability)
    THEN true
    ELSE false

\* grep -q on the file data, of which the model keeps one line per changed
\* file, holding its name: some line matches one of the patterns
Grep(FILES_DATA, patterns) ==
    \E i \in 1..Len(FILES_DATA) : \E p \in patterns : GrepLine(FILES_DATA[i], p)

ECOSYSTEM(FILES_DATA) ==
    IF Grep(FILES_DATA, {package_json, package_lock_json}) THEN npm
    ELSE IF Grep(FILES_DATA, {requirements_txt, Pipfile, setup_py}) THEN pip
    ELSE IF Grep(FILES_DATA, {pom_xml}) THEN maven
    ELSE IF Grep(FILES_DATA, {build_gradle}) THEN gradle
    ELSE IF Grep(FILES_DATA, {go_mod}) THEN go
    ELSE IF Grep(FILES_DATA, {Gemfile}) THEN bundler
    ELSE IF Grep(FILES_DATA, {Dockerfile}) THEN docker
    ELSE IF Grep(FILES_DATA, {github_workflows}) THEN github_actions
    ELSE unknown

RISK_LEVEL_ExclusiveBounds(RISK_SCORE) ==
    IF RISK_SCORE > 70 THEN high
    ELSE IF RISK_SCORE > 40 THEN medium
    ELSE IF RISK_SCORE > 20 THEN low
    ELSE minimal

RISK_LEVEL(RISK_SCORE) ==
    IF RISK_SCORE >= 70 THEN high
    ELSE IF RISK_SCORE >= 40 THEN medium
    ELSE IF RISK_SCORE >= 20 THEN low
    ELSE minimal

\* AUTO_MERGE_ELIGIBLE deciding on the risk score alone, the update type unchecked
AUTO_MERGE_ELIGIBLE_NoTypeCheck(update_type, risk_score, is_security) ==
    IF risk_score < 30 THEN true
    ELSE IF risk_score < 40 /\ is_security = true THEN true
    ELSE false

AUTO_MERGE_ELIGIBLE_MinorUpTo40(update_type, risk_score, is_security) ==
    IF update_type = patch /\ risk_score < 30 THEN true
    ELSE IF update_type = minor /\ risk_score <= 40 /\ is_security = true THEN true
    ELSE false

AUTO_MERGE_ELIGIBLE(update_type, risk_score, is_security) ==
    IF update_type = patch /\ risk_score < 30 THEN true
    ELSE IF update_type = minor /\ risk_score < 40 /\ is_security = true THEN true
    ELSE false

(***************************************************************************)
(* Reading a PR: the title patterns of both implementations.               *)
(***************************************************************************)
\* whether word stands in s at 1-based position i
At(s, i, word) == i + Len(word) - 1 <= Len(s) /\ SubSeq(s, i, i + Len(word) - 1) = word

\* the text of s from position i to its end
From(s, i) == SubSeq(s, i, Len(s))

\* the positions of s where word stands
Occurrences(s, word) == {i \in 1..Len(s) : At(s, i, word)}

MinOf(S) == CHOOSE x \in S : \A y \in S : x <= y
MaxOf(S) == CHOOSE x \in S : \A y \in S : x >= y

\* title =~ /from ([\d\.]+) to ([\d\.]+)/ with find(): the groups of the
\* leftmost match, or Null when the title has none
versionPattern(title) ==
    LET Old(i) == DigitDotPrefix(From(title, i + Len(from_)))
        New(i) == DigitDotPrefix(From(title, i + Len(from_) + Len(Old(i)) + Len(_to_)))
        matches == {i \in Occurrences(title, from_) :
                        /\ Old(i) # <<>>
                        /\ At(title, i + Len(from_) + Len(Old(i)), _to_)
                        /\ New(i) # <<>>}
    IN  IF matches = {} THEN Null
        ELSE <<Old(MinOf(matches)), New(MinOf(matches))>>

\* title =~ /Bump ([\w\-\/]+)/ with find(): the group of the leftmost match
packagePattern(title) ==
    LET Name(i) == WordPrefix(From(title, i + Len(Bump_)))
        matches == {i \in Occurrences(title, Bump_) : Name(i) # <<>>}
    IN  IF matches = {} THEN Null ELSE Name(MinOf(matches))

\* the updateInfo map that parseDependabotPR returns; a key it never set reads
\* Null. The call ends in the exception when determineUpdateType throws.
parseDependabotPR(json) ==
    LET versions == versionPattern(json.title)
        updateType == IF versions = Null THEN Null
                      ELSE determineUpdateType(versions[1], versions[2])
    IN  IF updateType = NumberFormatException THEN NumberFormatException
        ELSE [oldVersion |-> IF versions = Null THEN Null ELSE versions[1],
              newVersion |-> IF versions = Null THEN Null ELSE versions[2],
              updateType |-> updateType,
              packageName |-> packagePattern(json.title),
              isSecurityUpdate |->
                  \/ Contains(json.body, security)
                  \/ \E i \in 1..Len(json.labels) : json.labels[i] = security,
              ecosystem |-> detectEcosystem(json.files)]

\* sed -n 's/.*word\([0-9.]*\).*/\1/p': the digits and dots after the last
\* occurrence of word; nothing is printed when word does not occur
SedVersionAfter(title, word) ==
    IF Occurrences(title, word) = {} THEN <<>>
    ELSE DigitDotPrefix(From(title, MaxOf(Occurrences(title, word)) + Len(word)))

OLD_VERSION(PR_TITLE) == SedVersionAfter(PR_TITLE, from_)
NEW_VERSION(PR_TITLE) == SedVersionAfter(PR_TITLE, to_)

\* sed -n 's/Bump \(.*\) from.*/\1/p': the match runs from the first "Bump " to
\* the end of the title and is replaced by the text between that "Bump " and the
\* last " from" after it; what stands before the match is kept
PACKAGE_NAME(PR_TITLE) ==
    LET starts == {i \in Occurrences(PR_TITLE, Bump_) :
                      \E j \in Occurrences(PR_TITLE, _from) : j >= i + Len(Bump_)}
    IN  IF starts = {} THEN <<>>
        ELSE LET i == MinOf(starts)
                 j == MaxOf({k \in Occurrences(PR_TITLE, _from) : k >= i + Len(Bump_)})
             IN  SubSeq(PR_TITLE, 1, i - 1) \o SubSeq(PR_TITLE, i + Len(Bump_), j - 1)

\* jq -r '.labels[].name' | tr '\n' ',': every name followed by a comma
RECURSIVE PR_LABELS(_)
PR_LABELS(labels) ==
    IF labels = <<>> THEN <<>>
    ELSE Head(labels) \o comma \o PR_LABELS(Tail(labels))

\* recommendations.deployment_strategy of the report
deployment_strategy(RISK_SCORE) == IF RISK_SCORE >= 50 THEN canary ELSE rolling

\* the labels the script posts to the PR
LABELS_TO_ADD_AndDependencies(update_type, ecosystem, risk_level, is_security, auto_merge_eligible) ==
    {update_type \o update_suffix, ecosystem, risk_level \o risk_suffix, dependencies}
        \cup (IF is_security = true THEN {security} ELSE {})
        \cup (IF auto_merge_eligible = true THEN {auto_merge_candidate} ELSE {})

LABELS_TO_ADD(update_type, ecosystem, risk_level, is_security, auto_merge_eligible) ==
    {update_type \o update_suffix, ecosystem, risk_level \o risk_suffix}
        \cup (IF is_security = true THEN {security} ELSE {})
        \cup (IF auto_merge_eligible = true THEN {auto_merge_candidate} ELSE {})

\* the main execution of the categorizer on the fetched PR: the report it prints
Report(PR_DATA) ==
    LET labels == PR_LABELS(PR_DATA.labels)
        old == OLD_VERSION(PR_DATA.title)
        new == NEW_VERSION(PR_DATA.title)
        package == PACKAGE_NAME(PR_DATA.title)
        type == UPDATE_TYPE(old, new, labels)
        sec == IS_SECURITY(labels, PR_DATA.body)
        eco == ECOSYSTEM(PR_DATA.files)
        score == calculate_risk_score(type, sec, package, eco)
        level == RISK_LEVEL(score)
    IN  [package_name |-> package,
         old_version |-> old,
         new_version |-> new,
         update_type |-> type,
         ecosystem |-> eco,
         is_security |-> sec,
         risk_score |-> score,
         risk_level |-> level,
         auto_merge_eligible |-> AUTO_MERGE_ELIGIBLE(type, score, sec),
         deployment_strategy |-> deployment_strategy(score),
         exit |-> 0]

(***************************************************************************)
(* Inputs the operations are run on.                                       *)
(***************************************************************************)
lodash == <<"l", "o", "d", "a", "s", "h">>
axios == <<"a", "x", "i", "o", "s">>
react_express == <<"r", "e", "a", "c", "t", "-", "e", "x", "p", "r", "e", "s", "s">>
kubernetes_client == <<"k", "u", "b", "e", "r", "n", "e", "t", "e", "s", "-", "c", "l", "i", "e", "n", "t">>
types_react == <<"@", "t", "y", "p", "e", "s", "/", "r", "e", "a", "c", "t">>
app_csproj == <<"a", "p", "p", ".", "c", "s", "p", "r", "o", "j">>
ci_workflow == <<".", "g", "i", "t", "h", "u", "b", "/", "w", "o", "r", "k", "f", "l", "o", "w", "s", "/", "c", "i", ".", "y", "m", "l">>
README_md == <<"R", "E", "A", "D", "M", "E", ".", "m", "d">>
body_routine == <<"B", "u", "m", "p", "s", " ", "t", "h", "e", " ", "v", "e", "r", "s", "i", "o", "n", ".">>
body_security == <<"F", "i", "x", "e", "s", " ", "a", " ", "s", "e", "c", "u", "r", "i", "t", "y", " ", "i", "s", "s", "u", "e", ".">>
body_vulnerability == <<"P", "a", "t", "c", "h", "e", "s", " ", "a", " ", "v", "u", "l", "n", "e", "r", "a", "b", "i", "l", "i", "t", "y", ".">>
title_other == <<"U", "p", "d", "a", "t", "e", " ", "d", "e", "p", "e", "n", "d", "e", "n", "c", "i", "e", "s">>

VersionAlphabet == {"0", "1", ".", "x"}

\* the sequences over S of length n
RECURSIVE SeqsOfLen(_, _)
SeqsOfLen(S, n) ==
    IF n = 0 THEN {<<>>}
    ELSE {Append(s, x) : s \in SeqsOfLen(S, n - 1), x \in S}

\* every string over the alphabet up to the bound, the empty one included
VersionStrings == UNION {SeqsOfLen(VersionAlphabet, n) : n \in 0..MaxVerLen}

ScenarioVersions ==
    {<<"1", ".", "2">>,
     <<"1", ".", "2", ".", "0">>,
     <<"1", ".", "0", "2", ".", "0">>,
     <<"1", ".", "3", ".", "0">>,
     <<"2", ".", "0", ".", "0">>,
     <<"4", ".", "1", "7", ".", "2", "0">>,
     <<"4", ".", "1", "7", ".", "2", "1">>,
     <<"4", ".", "1", "8", ".", "0">>,
     <<"5", ".", "0", ".", "0">>,
     <<"l", "a", "t", "e", "s", "t">>}

Versions == VersionStrings \cup ScenarioVersions

PackageNames == {lodash, axios, express, react_express, rails, kubernetes_client, types_react}

UpdateTypes == {major, minor, patch, unknown}

Ecosystems == {npm, pip, maven, gradle, go, bundler, nuget, docker, github_actions, unknown}

FileNames ==
    {package_json, package_lock_json, requirements_txt, Pipfile, setup_py, pom_xml,
     build_gradle, go_mod, Gemfile, app_csproj, Dockerfile, ci_workflow, README_md}

FileLists == UNION {SeqsOfLen(FileNames, n) : n \in 0..MaxFiles}

\* updateInfo maps handed to calculateRiskScore and shouldAutoMerge; updateType
\* and packageName may never have been set
UpdateInfos ==
    [updateType : UpdateTypes \cup {Null},
     isSecurityUpdate : BOOLEAN,
     packageName : PackageNames \cup {Null},
     ecosystem : Ecosystems]

\* arguments of calculate_risk_score; UPDATE_TYPE may be empty
RiskArgs ==
    [update_type : UpdateTypes \cup {<<>>},
     is_security : {true, false},
     package_name : PackageNames \cup {<<>>},
     ecosystem : Ecosystems]

Title(package, old, new) == Bump_ \o package \o _from \o <<" ">> \o old \o _to_ \o new

TitleVersions ==
    {<<"1">>,
     <<"1", ".", "2">>,
     <<"1", ".", "2", ".", "0">>,
     <<"1", ".", "3", ".", "0">>,
     <<"2", ".", "0", ".", "0">>,
     <<"l", "a", "t", "e", "s", "t">>,
     <<>>,
     <<".">>}

Titles ==
    {Title(p, o, n) : p \in {lodash, express, kubernetes_client, types_react},
                      o \in TitleVersions, n \in TitleVersions}
        \cup {Title(axios, <<"1", ".", "2", ".", "0">>, <<"1", ".", "3", ".", "0">>)}
        \cup {title_other}

Bodies == {body_routine, body_security, body_vulnerability}

LabelLists == {<<>>, <<dependencies>>, <<security>>, <<dependencies, security>>}

\* the PRs that are read: every title, body and label list with a few file
\* lists, and every file list with a few titles
PullRequests ==
    [title : Titles, body : Bodies, labels : LabelLists,
     files : {<<package_json>>, <<Dockerfile>>, <<README_md>>}]
      \cup
    [title : {Title(lodash, <<"4", ".", "1", "7", ".", "2", "0">>, <<"4", ".", "1", "7", ".", "2", "1">>), Title(express, <<"4", ".", "1", "8", ".", "0">>, <<"5", ".", "0", ".", "0">>)},
     body : {body_routine}, labels : {<<dependencies>>}, files : FileLists]

Statuses == {success, failure, unstable}

Messages == {message_passed, message_failed}

(***************************************************************************)
(* The sample Express application (src/index.js). Its texts are plain      *)
(* strings: the handlers compare them whole. A JSON value of a request     *)
(* body carries its type, since the handlers test truthiness and bcrypt    *)
(* tests the type.                                                         *)
(***************************************************************************)
Undefined == [type |-> "undefined", text |-> ""]

Str(s) == [type |-> "string", text |-> s]

Num(s) == [type |-> "number", text |-> s]

\* !value of JavaScript
Falsy(value) ==
    \/ value.type = "undefined"
    \/ value.type = "string" /\ value.text = ""
    \/ value.type = "number" /\ value.text = "0"

\* uuidv4(): one of the identifiers that can be drawn
Uuids == {"uuid-1", "uuid-2"}

\* bcrypt.hash(data, 10) and bcrypt.compare(data, hash); compare rejects data
\* that is not a string
bcrypt_hash(data) == [algorithm |-> "bcrypt", rounds |-> 10, of |-> data]

bcrypt_compare_rejects(data) == data.type # "string"

bcrypt_compare(data, hash) == data.text = hash.of

\* process.env.JWT_SECRET || 'secret'
JwtSecret(e) == IF e.JWT_SECRET = "" THEN "secret" ELSE e.JWT_SECRET

\* jwt.sign(payload, key, { expiresIn: '1h' }) at time now
jwt_sign(payload, key, now) ==
    [userId |-> payload.userId, username |-> payload.username,
     iat |-> now, exp |-> now + 3600, key |-> key]

\* jwt.verify(token, key) at time now succeeds
jwt_valid(token, key, now) == token.key = key /\ now < token.exp

NoToken == [userId |-> "", username |-> "", iat |-> 0, exp |-> 0, key |-> ""]

\* 'invalid.token.here': a token that no key of the server signed
InvalidToken == [userId |-> "", username |-> "", iat |-> 0, exp |-> 0, key |-> "forged"]

NoRequest == [method |-> "", url |-> "", timestamp |-> 0]

NoResponse == [status |-> 0]

NoExternal == [ok |-> TRUE, called |-> FALSE]

\* what a handler does with a request: it answers, or its promise is rejected
Answer(status, body) == [does |-> "answer", status |-> status, body |-> body]

Rejected(message) == [does |-> "reject", message |-> message]

\* app.post('/api/auth/login')
apiAuthLogin(body, uuid, now, e) ==
    IF Falsy(body.username) \/ Falsy(body.password)
    THEN Answer(400, [error |-> "Username and password required"])
    ELSE IF bcrypt_compare_rejects(body.password)
    THEN Rejected("data and hash must be strings")
    ELSE LET mockHashedPassword == bcrypt_hash("password123")
             isValid == bcrypt_compare(body.password, mockHashedPassword)
         IN  IF body.username = Str("admin") /\ isValid
             THEN Answer(200, [token |-> jwt_sign([userId |-> uuid, username |-> "admin"],
                                                 JwtSecret(e), now),
                               expiresIn |-> 3600])
             ELSE Answer(401, [error |-> "Invalid credentials"])

\* _.pick(object, keys)
pick(object, keys) == [k \in DOMAIN object \cap keys |-> object[k]]

\* moment().format('YYYY-MM-DD HH:mm:ss') and new Date().toISOString()
format(now, pattern) == [time |-> now, pattern |-> pattern]

\* app.get('/api/data'), given what axios.get came back with
apiData_LeaksUpstream(result, uuid, now) ==
    IF result.ok
    THEN LET processed == result.data
         IN  Answer(200, [k \in DOMAIN processed \cup {"timestamp", "id"} |->
                            IF k = "timestamp" THEN format(now, "YYYY-MM-DD HH:mm:ss")
                            ELSE IF k = "id" THEN uuid
                            ELSE processed[k]])
    ELSE Answer(500, [error |-> "Internal server error", message |-> result.message])

apiData(result, uuid, now) ==
    IF result.ok
    THEN LET processed == pick(result.data, {"title", "body"})
         IN  Answer(200, [k \in DOMAIN processed \cup {"timestamp", "id"} |->
                            IF k = "timestamp" THEN format(now, "YYYY-MM-DD HH:mm:ss")
                            ELSE IF k = "id" THEN uuid
                            ELSE processed[k]])
    ELSE Answer(500, [error |-> "Internal server error"])

\* res.json leaves out a key whose value is undefined
health(now, e) ==
    LET always == [status |-> "healthy",
                   timestamp |-> format(now, "ISO"),
                   uptime |-> now]
    IN  IF e.npm_package_version = ""
        THEN Answer(200, always)
        ELSE Answer(200, [status |-> "healthy",
                          timestamp |-> format(now, "ISO"),
                          uptime |-> now,
                          version |-> e.npm_package_version])

\* the error handling middleware and the 404 handler
errorHandler(requestId) ==
    Answer(500, [error |-> "Internal server error", requestId |-> requestId])

notFound(url) == Answer(404, [error |-> "Not found", path |-> url])

\* the requests that are sent
Usernames == {Undefined, Str(""), Str("admin"), Str("wronguser")}

Passwords == {Undefined, Str(""), Str("password123"), Str("wrongpassword"), Num("123")}

LoginBodies == [username : Usernames, password : Passwords]

UnknownUrls == {"/unknown/route"}

\* what axios.get comes back with: the post, a post without a body, an
\* empty object, or an error
UpstreamResults ==
    {[ok |-> TRUE, called |-> TRUE, message |-> "",
      data |-> [userId |-> "1", id |-> "1", title |-> "Test Post", body |-> "Test Body"]],
     [ok |-> TRUE, called |-> TRUE, message |-> "",
      data |-> [userId |-> "1", id |-> "1", title |-> "Test Post"]],
     [ok |-> TRUE, called |-> TRUE, message |-> "",
      data |-> [k \in {} |-> ""]],
     [ok |-> FALSE, called |-> TRUE, message |-> "Network error",
      data |-> [k \in {} |-> ""]]}

\* the Authorization header of a request: none, a bearer token that was not
\* signed by the server, or a bearer token that a login issued
Authorizations ==
    {[scheme |-> "", token |-> NoToken], [scheme |-> "Bearer", token |-> InvalidToken]}
        \cup {[scheme |-> "Bearer", token |-> t] : t \in issued}

Environments ==
    [JWT_SECRET : {"", "test-secret-key"},
     npm_package_version : {"", "1.0.0"},
     express : {"4", "5"}]

\* the classifier is not run while the server is observed, and the server is
\* not started while the classifier is observed
ClassifierIdle ==
    /\ pc = "ready"
    /\ calls = 0
    /\ op = "none"
    /\ input = [none |-> TRUE]
    /\ output = "none"
    /\ prLabels = {}
    /\ prComments = <<>>

\* no build is started while the classifier or the server is observed
NoBuild ==
    /\ stageIndex = 0
    /\ position = "none"
    /\ pipeline = [file |-> "none"]
    /\ params = [none |-> TRUE]
    /\ buildEnv = [none |-> TRUE]
    /\ currentBuild = [result |-> "null"]
    /\ buildLog = <<>>

\* neither script is run while another program is observed
NoBatch ==
    /\ batchPc = "none"
    /\ args = [none |-> TRUE]
    /\ pulls = <<>>
    /\ DEPENDABOT_PRS = <<>>
    /\ cursor = 0
    /\ loopCounts = [MERGED_COUNT |-> 0, SKIPPED_COUNT |-> 0, FAILED_COUNT |-> 0]
    /\ effects = <<>>
    /\ handled = <<>>
    /\ batchExit = -1

NoRollback ==
    /\ rollbackPc = "none"
    /\ rollbackArgs = [none |-> TRUE]
    /\ rollbackStatus = ""
    /\ rollbackEffects = <<>>
    /\ rollbackExit = -1

NoScript == NoBatch /\ NoRollback

ServerNotStarted ==
    /\ requests = 0
    /\ running = FALSE
    /\ request = NoRequest
    /\ response = NoResponse
    /\ external = NoExternal
    /\ issued = {}
    /\ clock = 0
    /\ env = [JWT_SECRET |-> "", npm_package_version |-> "", express |-> "4"]
    /\ errorLog = <<>>

\* app.listen: the process runs, nothing was received
ServerInit ==
    /\ ClassifierIdle
    /\ NoBuild
    /\ NoScript
    /\ requests = 0
    /\ running = TRUE
    /\ request = NoRequest
    /\ response = NoResponse
    /\ external = NoExternal
    /\ issued = {}
    /\ clock = 0
    /\ env \in Environments
    /\ errorLog = <<>>

\* A request reaches the running process: the request logging middleware
\* logs it with the time, then the route's handler answers. A rejected promise of an async
\* handler is passed to the error handling middleware by Express 5; Express 4
\* leaves it unhandled, and the process exits on an unhandled rejection.
Receive(req, outcome, requestId) ==
    /\ running
    /\ requests < MaxRequests
    /\ requests' = requests + 1
    /\ request' = req
    /\ UNCHANGED <<clock, env, classifierVars, buildVars, scriptVars>>
    /\ IF outcome.does = "answer"
       THEN /\ response' = [status |-> outcome.status, body |-> outcome.body]
            /\ running' = TRUE
       ELSE IF env.express = "5"
       THEN /\ response' = [status |-> errorHandler(requestId).status,
                            body |-> errorHandler(requestId).body]
            /\ running' = TRUE
       ELSE /\ response' = NoResponse
            /\ running' = FALSE

PostApiAuthLogin ==
    \E body \in LoginBodies, uuid \in Uuids :
        LET outcome == apiAuthLogin(body, uuid, clock, env)
        IN  /\ Receive([method |-> "POST", url |-> "/api/auth/login", timestamp |-> clock,
                        body |-> body],
                       outcome, uuid)
            /\ issued' = IF outcome.does = "answer" /\ outcome.status = 200
                         THEN issued \cup {outcome.body.token}
                         ELSE issued
            /\ errorLog' = IF outcome.does = "reject" /\ env.express = "5"
                           THEN Append(errorLog, outcome.message)
                           ELSE errorLog
            /\ UNCHANGED external

GetApiData ==
    \E authorization \in Authorizations, result \in UpstreamResults, uuid \in Uuids :
        /\ Receive([method |-> "GET", url |-> "/api/data", timestamp |-> clock,
                    authorization |-> authorization],
                   apiData(result, uuid, clock), uuid)
        /\ external' = result
        /\ errorLog' = IF result.ok THEN errorLog ELSE Append(errorLog, result.message)
        /\ UNCHANGED issued

GetHealth ==
    /\ Receive([method |-> "GET", url |-> "/health", timestamp |-> clock], health(clock, env), "")
    /\ UNCHANGED <<external, issued, errorLog>>

UnknownRoute ==
    \E url \in UnknownUrls :
        /\ Receive([method |-> "GET", url |-> url, timestamp |-> clock], notFound(url), "")
        /\ UNCHANGED <<external, issued, errorLog>>

\* a request sent to the address of a process that has exited gets no response
ConnectionRefused ==
    /\ ~running
    /\ requests < MaxRequests
    /\ requests' = requests + 1
    /\ \E req \in {[method |-> "GET", url |-> "/health", timestamp |-> clock],
                   [method |-> "GET", url |-> "/api/data", timestamp |-> clock,
                    authorization |-> [scheme |-> "", token |-> NoToken]]} :
          request' = req
    /\ response' = NoResponse
    /\ external' = NoExternal
    /\ UNCHANGED <<running, issued, clock, env, errorLog, classifierVars, buildVars, scriptVars>>

\* an hour passes
Tick ==
    /\ clock < 3600 * MaxTicks
    /\ clock' = clock + 3600
    /\ UNCHANGED <<requests, running, request, response, external, issued, env, errorLog,
                   classifierVars, buildVars, scriptVars>>

ServerNext ==
    \/ PostApiAuthLogin
    \/ GetApiData
    \/ GetHealth
    \/ UnknownRoute
    \/ ConnectionRefused
    \/ Tick

ServerSpec == ServerInit /\ [][ServerNext]_vars

(***************************************************************************)
(* The state: one operation, op, is run on the input; output holds what it *)
(* returned once pc is "done". prLabels are the labels of the PR on the    *)
(* hosting service, which the categorizer posts to, and prComments the     *)
(* comments on it, which updatePRStatus posts. The categorizer can be run  *)
(* on the same PR again; calls counts the runs.                            *)
(***************************************************************************)
Ops ==
    {"determineUpdateType", "detectEcosystem", "calculateRiskScore", "shouldAutoMerge",
     "getDeploymentStrategy", "updatePRStatus", "parseDependabotPR", "determine_update_type", "calculate_risk_score", "categorize"}

Inputs(o) ==
    CASE o = "determineUpdateType" -> [oldVersion : Versions, newVersion : Versions]
      [] o = "determine_update_type" -> [old_version : Versions, new_version : Versions]
      [] o = "detectEcosystem" -> [files : FileLists]
      [] o = "calculateRiskScore" -> [updateInfo : UpdateInfos]
      [] o = "shouldAutoMerge" -> [updateInfo : UpdateInfos, allPassed : BOOLEAN]
      [] o = "getDeploymentStrategy" -> [updateInfo : UpdateInfos]
      [] o = "updatePRStatus" -> [status : Statuses, message : Messages]
      [] o = "parseDependabotPR" -> [json : PullRequests]
      [] o = "calculate_risk_score" -> [args : RiskArgs]
      [] o = "categorize" -> [PR_DATA : PullRequests, found : BOOLEAN, GITHUB_TOKEN : BOOLEAN]

LabelsOf(i) ==
    IF "PR_DATA" \in DOMAIN i THEN {i.PR_DATA.labels[k] : k \in 1..Len(i.PR_DATA.labels)}
    ELSE IF "json" \in DOMAIN i THEN {i.json.labels[k] : k \in 1..Len(i.json.labels)}
    ELSE {}

Init ==
    /\ op \in Ops
    /\ input \in Inputs(op)
    /\ output = "none"
    /\ pc = "ready"
    /\ calls = 0
    /\ prLabels = LabelsOf(input)
    /\ prComments = <<>>
    /\ ServerNotStarted
    /\ NoBuild
    /\ NoScript

Return(value) ==
    /\ pc = "ready"
    /\ pc' = "done"
    /\ calls' = calls + 1
    /\ output' = value
    /\ UNCHANGED <<op, input, serverVars, buildVars, scriptVars>>

DetermineUpdateType ==
    /\ op = "determineUpdateType"
    /\ Return(determineUpdateType(input.oldVersion, input.newVersion))
    /\ UNCHANGED <<prLabels, prComments>>

DetectEcosystem ==
    /\ op = "detectEcosystem"
    /\ Return(detectEcosystem(input.files))
    /\ UNCHANGED <<prLabels, prComments>>

CalculateRiskScore ==
    /\ op = "calculateRiskScore"
    /\ Return(calculateRiskScore(input.updateInfo))
    /\ UNCHANGED <<prLabels, prComments>>

ShouldAutoMerge ==
    /\ op = "shouldAutoMerge"
    /\ Return(shouldAutoMerge(input.updateInfo, [allPassed |-> input.allPassed]))
    /\ UNCHANGED <<prLabels, prComments>>

GetDeploymentStrategy ==
    /\ op = "getDeploymentStrategy"
    /\ Return(getDeploymentStrategy(input.updateInfo))
    /\ UNCHANGED <<prLabels, prComments>>

ParseDependabotPR ==
    /\ op = "parseDependabotPR"
    /\ Return(parseDependabotPR(input.json))
    /\ UNCHANGED <<prLabels, prComments>>

Determine_update_type ==
    /\ op = "determine_update_type"
    /\ Return(determine_update_type(input.old_version, input.new_version))
    /\ UNCHANGED <<prLabels, prComments>>

Calculate_risk_score ==
    /\ op = "calculate_risk_score"
    /\ Return(calculate_risk_score(input.args.update_type, input.args.is_security,
                                   input.args.package_name, input.args.ecosystem))
    /\ UNCHANGED <<prLabels, prComments>>

\* one run of the categorizer script: it exits 1 when the PR cannot be fetched,
\* else prints the report and, with a token, posts the labels
UpdatePRStatus ==
    /\ op = "updatePRStatus"
    /\ Return(Null)
    /\ prComments' = Append(prComments, updatePRStatus(input.status, input.message))
    /\ UNCHANGED prLabels

\* The PR as the hosting service returns it on this run: the PR with the
\* labels it has now, those it had at first followed by those posted since.
RECURSIVE SetToSeq(_)
SetToSeq(S) ==
    IF S = {} THEN <<>>
    ELSE LET x == CHOOSE y \in S : TRUE
         IN  <<x>> \o SetToSeq(S \ {x})

github_api_pulls(PR_DATA, labels) ==
    [PR_DATA EXCEPT !.labels =
        @ \o SetToSeq(labels \ {PR_DATA.labels[k] : k \in 1..Len(PR_DATA.labels)})]

Categorize_PostsWithoutToken ==
    /\ op = "categorize"
    /\ calls < MaxCalls
    /\ pc' = "done"
    /\ calls' = calls + 1
    /\ UNCHANGED <<op, input, prComments, serverVars, buildVars, scriptVars>>
    /\ IF ~input.found
       THEN /\ output' = [exit |-> 1]
            /\ UNCHANGED prLabels
       ELSE LET r == Report(github_api_pulls(input.PR_DATA, prLabels))
            IN  /\ output' = r
                /\ prLabels' =
                      prLabels \cup LABELS_TO_ADD(r.update_type, r.ecosystem, r.risk_level,
                                                  r.is_security, r.auto_merge_eligible)

Categorize ==
    /\ op = "categorize"
    /\ calls < MaxCalls
    /\ pc' = "done"
    /\ calls' = calls + 1
    /\ UNCHANGED <<op, input, prComments, serverVars, buildVars, scriptVars>>
    /\ IF ~input.found
       THEN /\ output' = [exit |-> 1]
            /\ UNCHANGED prLabels
       ELSE LET r == Report(github_api_pulls(input.PR_DATA, prLabels))
            IN  /\ output' = r
                /\ prLabels' =
                      IF input.GITHUB_TOKEN
                      THEN prLabels \cup LABELS_TO_ADD(r.update_type, r.ecosystem, r.risk_level,
                                                       r.is_security, r.auto_merge_eligible)
                      ELSE prLabels

Next ==
    \/ DetermineUpdateType
    \/ DetectEcosystem
    \/ CalculateRiskScore
    \/ ShouldAutoMerge
    \/ GetDeploymentStrategy
    \/ UpdatePRStatus
    \/ ParseDependabotPR
    \/ Determine_update_type
    \/ Calculate_risk_score
    \/ Categorize

Spec == Init /\ [][Next]_vars

(***************************************************************************)
(* The Jenkins pipelines: one build of src/Jenkinsfile.groovy, of          *)
(* src/unnamed/part_000, of jenkins/pipelines/minor-patch.groovy or of     *)
(* jenkins/pipelines/major-update.groovy.  A stage is a list of the steps  *)
(* that can end it or that a later stage depends on: a step that only      *)
(* echoes, and a command followed by "|| true" that is not a test run,     *)
(* always exits 0 and is left out.                                         *)
(***************************************************************************)
\* params.NAME of a parameter the pipeline does not declare is null
Param(name) == IF name \in DOMAIN params THEN params[name] ELSE "null"

\* env.NAME of a variable that is not set is null
Env(name) == IF name \in DOMAIN buildEnv THEN buildEnv[name] ELSE "null"

fileExists(file) == file \in pipeline.workspace

\* sh 'command': a non-zero exit status ends the stage
Cmd(command) == [run |-> command, exits |-> {0, 1}, guarded |-> FALSE, outs |-> {""}]

\* sh 'command || true': the exit status of the command is dropped
OrTrue(command) == [run |-> command, exits |-> {0, 1}, guarded |-> TRUE, outs |-> {""}]

\* sh(script: command, returnStdout: true)
Stdout(command, outs) == [run |-> command, exits |-> {0, 1}, guarded |-> FALSE, outs |-> outs]

\* error(message) always ends the stage
error(message) == [run |-> "error", exits |-> {1}, guarded |-> FALSE, outs |-> {message}]

\* junit allowEmptyResults: true: the reports of the workspace hold failed tests or not
junit == [run |-> "junit", exits |-> {0}, guarded |-> TRUE, outs |-> {"", "failed tests"}]

\* input message: ...: the build waits for a person
inputStep == [run |-> "input", exits |-> {0}, guarded |-> TRUE, outs |-> {"waiting"}]

\* what dependabot-parser prints
ParserOutputs == {"patch", "minor", "major", ""}

JenkinsfileStages ==
    <<"Initialize",
      "Checkout Main", "Install Dependencies", "Run Tests", "Build Application",
      "Deploy to Production", "Post-Deploy Verification",
      "Categorize Update", "Checkout Code", "Dependency Installation", "Security Scanning",
      "Quality Gates", "Build", "Security Scan", "Approval Gate", "Auto-Merge Decision",
      "Deploy", "Post-Deployment Verification", "Rollback Ready">>

\* the stages nested in stage('Direct Push Deploy')
DirectPushDeploy ==
    {"Checkout Main", "Install Dependencies", "Run Tests", "Build Application",
     "Deploy to Production", "Post-Deploy Verification"}

Part000Stages ==
    <<"Initialize", "Checkout Code", "Dependency Installation", "Security Scanning",
      "Quality Gates", "Build", "Approval Gate", "Auto-Merge Decision",
      "Deploy", "Post-Deployment Verification", "Rollback Ready">>

MinorPatchStages ==
    <<"Quick Setup", "Dependency Install", "Fast Validation", "Build & Package",
      "Auto-Merge PR", "Quick Deploy", "Quick Verification", "Cleanup & Report">>

MajorUpdateStages ==
    <<"Pre-flight Checks", "Dependency Analysis", "Extended Testing Suite",
      "Build Multiple Variants", "Staging Deployment", "Staging Validation",
      "Manual Review Gate", "Production Deployment", "Production Validation",
      "Post-Deployment">>

Stages ==
    CASE pipeline.file = "Jenkinsfile" -> JenkinsfileStages
      [] pipeline.file = "part_000" -> Part000Stages
      [] pipeline.file = "minor-patch" -> MinorPatchStages
      [] pipeline.file = "major-update" -> MajorUpdateStages

\* expression { params.IS_PR_BUILD || params.PR_NUMBER != '' }
IsPRBuild == Param("IS_PR_BUILD") \/ Param("PR_NUMBER") # ""

\* the condition a stage of the pull request pipeline adds in its when block
StageCondition(name) ==
    CASE name = "Security Scanning" ->
            Param("PIPELINE_TYPE") = "security-patch" \/ Param("PIPELINE_TYPE") = "major-update"
      [] name = "Security Scan" -> Env("UPDATE_TYPE") = "patch"
      [] name = "Approval Gate" -> Param("PIPELINE_TYPE") = "major-update"
      [] name = "Auto-Merge Decision" -> Param("AUTO_MERGE") = "true"
      [] name = "Deploy" ->
            \/ Param("PIPELINE_TYPE") # "major-update"
            \/ Param("PIPELINE_TYPE") = "major-update" /\ Env("APPROVAL_COMMENT") # "null"
      [] name = "Rollback Ready" -> currentBuild.result = "FAILURE"
      [] OTHER -> TRUE

\* a Direct Push Deploy that only looks at IS_PR_BUILD
WhenJenkinsfile_DirectIgnoresNumber(name) ==
    IF name = "Initialize" THEN TRUE
    ELSE IF name \in DirectPushDeploy THEN ~Param("IS_PR_BUILD")
    ELSE IsPRBuild /\ StageCondition(name)

WhenJenkinsfile(name) ==
    IF name = "Initialize" THEN TRUE
    ELSE IF name \in DirectPushDeploy THEN ~Param("IS_PR_BUILD") /\ Param("PR_NUMBER") = ""
    ELSE IsPRBuild /\ StageCondition(name)

WhenMinorPatch(name) ==
    CASE name = "Fast Validation" -> Param("FAST_TRACK") # TRUE
      [] name = "Auto-Merge PR" -> Env("AUTO_MERGE") = "true"
      [] name = "Quick Deploy" -> Param("AUTO_DEPLOY") = TRUE
      [] name = "Quick Verification" -> Param("AUTO_DEPLOY") = TRUE
      [] OTHER -> TRUE

\* the when block of a stage
When(name) ==
    CASE pipeline.file = "Jenkinsfile" -> WhenJenkinsfile(name)
      [] pipeline.file = "part_000" -> StageCondition(name)
      [] pipeline.file = "minor-patch" -> WhenMinorPatch(name)
      [] pipeline.file = "major-update" -> TRUE

If(condition, steps) == IF condition THEN steps ELSE <<>>

\* if (currentBuild.result == null || currentBuild.result == 'SUCCESS')
TestsPassed == currentBuild.result = "null" \/ currentBuild.result = "SUCCESS"

\* an audit whose status never ends the stage
DependencyAudit_NeverFails == If(fileExists("package.json"), <<OrTrue("npm audit")>>)

\* stage('Dependency Audit'): the status of npm audit --audit-level=high is
\* read, and a status other than 0 ends the stage of a security patch only
DependencyAudit ==
    If(fileExists("package.json"),
       IF Param("PIPELINE_TYPE") = "security-patch"
       THEN <<Cmd("npm audit")>> ELSE <<OrTrue("npm audit")>>)

JenkinsfileSteps(name) ==
    CASE name = "Initialize" ->
            If(IsPRBuild /\ Param("CALLBACK_URL") # "", <<Cmd("curl -X POST CALLBACK_URL")>>)
      [] name = "Checkout Main" -> <<Cmd("checkout scm")>>
      [] name = "Install Dependencies" -> If(fileExists("package.json"), <<Cmd("npm ci")>>)
      [] name = "Run Tests" -> If(fileExists("package.json"), <<OrTrue("npm test")>>)
      [] name = "Build Application" -> If(fileExists("Dockerfile"), <<Cmd("docker build")>>)
      [] name = "Categorize Update" ->
            If(Env("PULL_REQUEST_ID") = "null" /\ Param("PR_NUMBER") # "",
               <<Stdout("dependabot-parser", ParserOutputs)>>)
      [] name = "Checkout Code" -> <<Cmd("checkout")>>
      [] name = "Dependency Installation" -> If(fileExists("package.json"), <<Cmd("npm ci")>>)
      [] name = "Security Scanning" -> DependencyAudit
      [] name = "Quality Gates" -> If(fileExists("package.json"), <<OrTrue("npm test")>>) \o <<junit>>
      [] name = "Build" -> If(fileExists("Dockerfile"), <<Cmd("docker build")>>)
      [] name = "Security Scan" -> <<Cmd("trivy scan")>>
      [] name = "Approval Gate" -> <<Cmd("curl -X POST comments"), inputStep>>
      [] name = "Auto-Merge Decision" ->
            IF TestsPassed
            THEN <<Cmd("curl -X POST reviews APPROVE"), Cmd("curl -X PUT merge")>>
            ELSE <<error("Auto-merge aborted due to test failures")>>
      [] name = "Deploy" ->
            If(Env("DEPLOYMENT_STRATEGY") = "rolling", <<Cmd("kubectl set image")>>)
            \o <<Cmd("sleep 10")>>
      [] name = "Rollback Ready" -> <<Cmd("curl -X POST comments")>>
      [] OTHER -> <<>>

Part000Steps(name) ==
    IF name = "Initialize"
    THEN If(Param("CALLBACK_URL") # "", <<Cmd("curl -X POST CALLBACK_URL")>>)
    ELSE JenkinsfileSteps(name)

MinorPatchSteps(name) ==
    CASE name = "Quick Setup" -> <<Cmd("checkout scm")>>
      [] name = "Dependency Install" -> If(fileExists("package.json"), <<Cmd("npm ci")>>)
      [] name = "Fast Validation" -> If(fileExists("package.json"), <<OrTrue("npm test")>>)
      [] name = "Build & Package" ->
            If(fileExists("package.json"), <<Cmd("npm run build")>>)
            \o If(fileExists("Dockerfile"), <<Cmd("docker build")>>)
      [] name = "Auto-Merge PR" ->
            IF TestsPassed
            THEN <<Cmd("gh pr review --approve"), Cmd("gh pr merge --squash"),
                   Cmd("gh pr edit --add-label")>>
            ELSE <<error("Cannot auto-merge: Tests failed")>>
      [] name = "Quick Deploy" -> <<Cmd("sleep 10")>>
      [] name = "Cleanup & Report" -> <<Cmd("gh pr comment")>>
      [] OTHER -> <<>>

MajorUpdateSteps(name) ==
    CASE name = "Dependency Analysis" ->
            If(fileExists("package.json"), <<Cmd("npx npm-check-updates")>>)
      [] name = "Extended Testing Suite" ->
            If(fileExists("package.json"), <<OrTrue("npm run test:regression")>>)
      [] name = "Build Multiple Variants" -> <<Cmd("docker build")>>
      [] name = "Manual Review Gate" -> <<inputStep>>
      [] name = "Post-Deployment" -> <<Cmd("curl -X POST SLACK_WEBHOOK")>>
      [] OTHER -> <<>>

\* the steps of a stage
Steps(name) ==
    CASE pipeline.file = "Jenkinsfile" -> JenkinsfileSteps(name)
      [] pipeline.file = "part_000" -> Part000Steps(name)
      [] pipeline.file = "minor-patch" -> MinorPatchSteps(name)
      [] pipeline.file = "major-update" -> MajorUpdateSteps(name)

\* the post section: the blocks of the build's result
PostSteps(result) ==
    CASE pipeline.file \in {"Jenkinsfile", "part_000"} /\ result \in {"SUCCESS", "FAILURE"} ->
            If(pipeline.file = "part_000" \/ IsPRBuild,
               If(Param("CALLBACK_URL") # "", <<OrTrue("curl -X POST CALLBACK_URL")>>)
               \o <<OrTrue("curl -X POST comments")>>)
      [] pipeline.file = "minor-patch" /\ result = "FAILURE" -> <<OrTrue("gh pr comment")>>
      [] pipeline.file = "major-update" /\ result = "FAILURE" ->
            <<OrTrue("curl -X POST SLACK_WEBHOOK")>>
      [] OTHER -> <<>>

\* what a list of steps can do in a stage: each step runs if the steps before
\* it exited 0 or were guarded; an input step suspends the stage
RECURSIVE Runs(_, _)
Runs(name, steps) ==
    IF steps = <<>> THEN {<<>>}
    ELSE LET step == Head(steps)
             entry(exit, out) ==
                 [stage |-> name, step |-> step.run, exit |-> exit, out |-> out,
                  fails |-> exit # 0 /\ ~step.guarded]
         IN  UNION {IF exit # 0
                    THEN IF step.guarded
                         THEN {<<entry(exit, "")>> \o rest : rest \in Runs(name, Tail(steps))}
                         ELSE {<<entry(exit, IF step.run = "error" THEN CHOOSE m \in step.outs : TRUE ELSE "")>>}
                    ELSE IF step.run = "input"
                         THEN {<<entry(0, "waiting")>>}
                         ELSE {<<entry(0, out)>> \o rest :
                                 out \in step.outs, rest \in Runs(name, Tail(steps))}
                    : exit \in step.exits}

Failing(run) == run # <<>> /\ run[Len(run)].fails

Waiting(run) == run # <<>> /\ run[Len(run)].step = "input"

\* env.UPDATE_TYPE = updateType and the strategy chosen from it; a script
\* assignment to a variable of the environment block takes effect or is
\* dropped, as the Jenkins release decides
Assigned(e, run) ==
    IF \E i \in 1..Len(run) : run[i].step = "dependabot-parser" /\ run[i].exit = 0
    THEN LET updateType ==
                 run[CHOOSE i \in 1..Len(run) : run[i].step = "dependabot-parser"].out
             assigned == [UPDATE_TYPE |-> updateType]
                 @@ (CASE updateType = "patch" ->
                            [DEPLOYMENT_STRATEGY |-> "rolling", APPROVAL_REQUIRED |-> "false"]
                       [] updateType = "minor" ->
                            [DEPLOYMENT_STRATEGY |-> "blue-green", APPROVAL_REQUIRED |-> "true"]
                       [] updateType = "major" ->
                            [DEPLOYMENT_STRATEGY |-> "canary", APPROVAL_REQUIRED |-> "manual"]
                       [] OTHER -> << >>)
         IN  IF pipeline.scriptOverridesEnvironment THEN assigned @@ e ELSE e
    ELSE e

\* the result after a stage ran: a failed step fails the build, junit marks
\* a build with failed tests unstable
ResultAfter(result, run) ==
    IF Failing(run) THEN "FAILURE"
    ELSE IF result = "null" /\ \E i \in 1..Len(run) : run[i].out = "failed tests"
    THEN "UNSTABLE"
    ELSE result

begin(name) == [stage |-> name, step |-> "begin", exit |-> 0, out |-> "", fails |-> FALSE]

\* the environment block
Environment(file, p) ==
    IF file \in {"Jenkinsfile", "part_000"}
    THEN [DEPLOY_ENV |-> IF p.PIPELINE_TYPE = "major-update" THEN "staging" ELSE "production",
          AUTO_MERGE |-> IF p.PIPELINE_TYPE # "major-update" THEN "true" ELSE "false"]
         @@ (IF file = "Jenkinsfile"
             THEN [DEPLOYMENT_STRATEGY |-> "", APPROVAL_REQUIRED |-> "", UPDATE_TYPE |-> ""]
             ELSE << >>)
    ELSE IF file = "minor-patch"
    THEN [UPDATE_RISK |-> "low", AUTO_MERGE |-> "true", DEPLOY_STRATEGY |-> "rolling",
          TEST_LEVEL |-> IF p.FAST_TRACK THEN "minimal" ELSE "standard"]
    ELSE [UPDATE_RISK |-> "high", AUTO_MERGE |-> "false"]

\* the parameters block, with the values a build is started with
Parameters(file) ==
    CASE file = "Jenkinsfile" ->
            [IS_PR_BUILD : BOOLEAN, PR_NUMBER : {"", "42"},
             PIPELINE_TYPE : {"minor-patch", "major-update", "security-patch"},
             CALLBACK_URL : {"", "https://api.github.com/statuses"}]
      [] file = "part_000" ->
            [PR_NUMBER : {"", "42"},
             PIPELINE_TYPE : {"minor-patch", "major-update", "security-patch"},
             CALLBACK_URL : {"", "https://api.github.com/statuses"}]
      [] file = "minor-patch" -> [PR_NUMBER : {"42"}, AUTO_DEPLOY : BOOLEAN, FAST_TRACK : BOOLEAN]
      [] file = "major-update" -> [PR_NUMBER : {"42"}, SKIP_PERFORMANCE_TESTS : BOOLEAN]

\* the files of the checked-out repository
Workspaces == {{}, {"package.json", "Dockerfile"}}

\* variables the Jenkins node gives every build
NodeEnvironments == {<< >>, [APPROVAL_COMMENT |-> "approved by the release manager"]}

Pipelines ==
    [file : {"Jenkinsfile"}, workspace : Workspaces, scriptOverridesEnvironment : BOOLEAN]
    \cup [file : {"part_000", "minor-patch", "major-update"}, workspace : Workspaces,
          scriptOverridesEnvironment : {TRUE}]

\* a build starts at the first stage
PipelineInit ==
    /\ ClassifierIdle
    /\ ServerNotStarted
    /\ NoScript
    /\ pipeline \in Pipelines
    /\ params \in Parameters(pipeline.file)
    /\ \E node \in NodeEnvironments : buildEnv = Environment(pipeline.file, params) @@ node
    /\ currentBuild = [result |-> "null"]
    /\ buildLog = <<>>
    /\ stageIndex = 1
    /\ position = "stages"

Stage == Stages[stageIndex]

\* after a step failed or the build was aborted no stage runs any more
Stopped == currentBuild.result \in {"FAILURE", "ABORTED"}

\* the stage's when block holds: its steps run
RunStage ==
    /\ position = "stages"
    /\ stageIndex <= Len(Stages)
    /\ ~Stopped
    /\ When(Stage)
    /\ \E run \in Runs(Stage, Steps(Stage)) :
          /\ buildLog' = buildLog \o <<begin(Stage)>> \o run
          /\ currentBuild' = [result |-> ResultAfter(currentBuild.result, run)]
          /\ buildEnv' = Assigned(buildEnv, run)
          /\ position' = IF Waiting(run) THEN "input" ELSE "stages"
          /\ stageIndex' = IF Waiting(run) THEN stageIndex ELSE stageIndex + 1
    /\ UNCHANGED <<pipeline, params, classifierVars, serverVars, scriptVars>>

\* the stage is skipped: its when block is false, or an earlier stage failed
SkipStage ==
    /\ position = "stages"
    /\ stageIndex <= Len(Stages)
    /\ Stopped \/ ~When(Stage)
    /\ stageIndex' = stageIndex + 1
    /\ UNCHANGED <<position, pipeline, params, buildEnv, currentBuild, buildLog,
                   classifierVars, serverVars, scriptVars>>

\* a person approves the input: the value the step returns is not kept
Proceed ==
    /\ position = "input"
    /\ buildLog' = Append(buildLog, [stage |-> Stage, step |-> "input", exit |-> 0,
                                     out |-> "approved", fails |-> FALSE])
    /\ position' = "stages"
    /\ stageIndex' = stageIndex + 1
    /\ UNCHANGED <<pipeline, params, buildEnv, currentBuild, classifierVars, serverVars, scriptVars>>

\* an input that, when aborted, lets the later stages run
Abort_BuildGoesOn ==
    /\ position = "input"
    /\ buildLog' = Append(buildLog, [stage |-> Stage, step |-> "input", exit |-> 1,
                                     out |-> "aborted", fails |-> FALSE])
    /\ position' = "stages"
    /\ stageIndex' = stageIndex + 1
    /\ UNCHANGED <<pipeline, params, buildEnv, currentBuild, classifierVars, serverVars, scriptVars>>

\* a person aborts the input, or the timeout of the build passes
Abort ==
    /\ position = "input"
    /\ buildLog' = Append(buildLog, [stage |-> Stage, step |-> "input", exit |-> 1,
                                     out |-> "aborted", fails |-> TRUE])
    /\ currentBuild' = [result |-> "ABORTED"]
    /\ position' = "stages"
    /\ stageIndex' = stageIndex + 1
    /\ UNCHANGED <<pipeline, params, buildEnv, classifierVars, serverVars, scriptVars>>

\* the post section ends the build
Post ==
    /\ position = "stages"
    /\ stageIndex > Len(Stages)
    /\ LET result == IF currentBuild.result = "null" THEN "SUCCESS" ELSE currentBuild.result
       IN  /\ currentBuild' = [result |-> result]
           /\ \E run \in Runs("post", PostSteps(result)) :
                 buildLog' = buildLog \o <<begin("post")>> \o run
    /\ position' = "finished"
    /\ UNCHANGED <<stageIndex, pipeline, params, buildEnv, classifierVars, serverVars, scriptVars>>

PipelineNext ==
    \/ RunStage
    \/ SkipStage
    \/ Proceed
    \/ Abort
    \/ Post

PipelineSpec == PipelineInit /\ [][PipelineNext]_vars

(***************************************************************************)
(* The batch merge script: src/scripts/batch-merge.sh, lines 1-322.  The   *)
(* script runs under set -e and its loop is the last command of a          *)
(* pipeline, so the loop runs in a subshell with its own copy of the       *)
(* counters.                                                               *)
(***************************************************************************)
all_ == <<"a", "l", "l">>

space == <<" ">>

do_not_merge == <<"d", "o", "-", "n", "o", "t", "-", "m", "e", "r", "g", "e">>

work_in_progress ==
    <<"w", "o", "r", "k", "-", "i", "n", "-", "p", "r", "o", "g", "r", "e", "s", "s">>

\* jq -r '.labels[].name' | tr '\n' ' '
RECURSIVE pr_labels(_)
pr_labels(labels) ==
    IF labels = <<>> THEN <<>>
    ELSE Head(labels) \o space \o pr_labels(Tail(labels))

\* jq 'select(.user.login == "dependabot[bot]" or .user.login == "dependabot-preview[bot]")'
IsDependabot(pr) == pr.login = "dependabot[bot]" \/ pr.login = "dependabot-preview[bot]"

\* an eligibility check without the do-not-merge and work-in-progress labels
is_eligible_for_merge_IgnoresHold(pr, a, approved) ==
    IF pr.state # "open" THEN "false"
    ELSE IF pr.mergeable = "false" THEN "false"
    ELSE IF a.UPDATE_TYPE # all_ /\ ~Contains(pr_labels(pr.labels), a.UPDATE_TYPE \o update_suffix)
    THEN "false"
    ELSE IF a.STATUS = "approved" /\ approved = 0 THEN "false"
    ELSE "true"

\* is_eligible_for_merge: approved is the number of APPROVED reviews the API
\* returns for the pull request
is_eligible_for_merge(pr, a, approved) ==
    IF pr.state # "open" THEN "false"
    ELSE IF pr.mergeable = "false" THEN "false"
    ELSE IF a.UPDATE_TYPE # all_ /\ ~Contains(pr_labels(pr.labels), a.UPDATE_TYPE \o update_suffix)
    THEN "false"
    ELSE IF \/ Contains(pr_labels(pr.labels), do_not_merge)
            \/ Contains(pr_labels(pr.labels), work_in_progress)
    THEN "false"
    ELSE IF a.STATUS = "approved" /\ approved = 0 THEN "false"
    ELSE "true"

\* check_ci_status: the combined status of the head commit
check_ci_status(combined_status) ==
    CASE combined_status = "success" -> "passed"
      [] combined_status = "pending" -> "pending"
      [] combined_status \in {"failure", "error"} -> "failed"
      [] OTHER -> "unknown"

\* a merge that does not look at DRY_RUN
merge_pr_IgnoresDryRun(pr, a, merged) ==
    [requests |-> <<[does |-> "PUT merge", number |-> pr.number]>>,
     status |-> IF merged THEN 0 ELSE 1]

\* merge_pr: the requests it sends and the status it returns; merged is the
\* .merged of the API's answer
merge_pr(pr, a, merged) ==
    IF a.DRY_RUN
    THEN [requests |-> <<>>, status |-> 0]
    ELSE [requests |-> <<[does |-> "PUT merge", number |-> pr.number]>>,
          status |-> IF merged THEN 0 ELSE 1]

\* ((COUNT++)): the command's status is 1 when the expression's value, the
\* value before the increment, is 0
PostIncrement(value) == [value |-> value + 1, status |-> IF value = 0 THEN 1 ELSE 0]

\* MERGED_COUNT=0, SKIPPED_COUNT=0, FAILED_COUNT=0 of the script's own shell,
\* which the subshell of the loop does not change
ParentCounts == [MERGED_COUNT |-> 0, SKIPPED_COUNT |-> 0, FAILED_COUNT |-> 0]

\* the label lists of the open pull requests
PullLabels ==
    {<<>>, <<patch \o update_suffix>>, <<minor \o update_suffix>>,
     <<patch \o update_suffix, do_not_merge>>, <<work_in_progress, patch \o update_suffix>>}

\* a pull request of the list the API returns for state=open
PullShapes ==
    [login : {"dependabot[bot]"}, state : {"open"},
     mergeable : {"null", "true", "false"}, labels : PullLabels]
    \cup [login : {"dependabot-preview[bot]", "octocat"}, state : {"open"},
          mergeable : {"null"}, labels : {<<patch \o update_suffix>>}]

\* the lists of at most MaxPRs pull requests, numbered by their place
PullLists ==
    UNION {{[i \in 1..n |-> shapes[i] @@ [number |-> i]] : shapes \in [1..n -> PullShapes]} :
           n \in 0..MaxPRs}

\* the options of the command line, after the argument loop
BatchArgs ==
    [UPDATE_TYPE : {patch, minor, all_}, STATUS : {"approved", "all"}, DRY_RUN : BOOLEAN]

CombinedStatuses == {"success", "pending", "failure", "error", ""}

\* the script starts with its options parsed and REPO_NAME given
BatchInit ==
    /\ ClassifierIdle
    /\ ServerNotStarted
    /\ NoBuild
    /\ NoRollback
    /\ batchPc = "fetch"
    /\ args \in BatchArgs
    /\ pulls \in PullLists
    /\ DEPENDABOT_PRS = <<>>
    /\ cursor = 0
    /\ loopCounts = ParentCounts
    /\ effects = <<>>
    /\ handled = <<>>
    /\ batchExit = -1

\* PRS_DATA is fetched and filtered for Dependabot's pull requests; the
\* subshell of the loop starts with a copy of the counters
FetchPRs ==
    /\ batchPc = "fetch"
    /\ DEPENDABOT_PRS' = SelectSeq(pulls, IsDependabot)
    /\ cursor' = 1
    /\ loopCounts' = ParentCounts
    /\ batchPc' = "loop"
    /\ UNCHANGED <<args, pulls, effects, handled, batchExit,
                   classifierVars, serverVars, buildVars, rollbackVars>>

\* what one pass of the loop body does with the pull request at the cursor:
\* the counter it increments, the requests it sends and the sleeps it takes
Pass(pr, approved, combined_status, merged) ==
    IF is_eligible_for_merge(pr, args, approved) # "true"
    THEN [outcome |-> "skipped", counter |-> "SKIPPED_COUNT", requests |-> <<>>]
    ELSE IF check_ci_status(combined_status) # "passed"
    THEN [outcome |-> "skipped", counter |-> "SKIPPED_COUNT", requests |-> <<>>]
    ELSE LET merge == merge_pr(pr, args, merged)
         IN  IF merge.status = 0
             THEN [outcome |-> "merged", counter |-> "MERGED_COUNT",
                   requests |-> merge.requests]
             ELSE [outcome |-> "failed", counter |-> "FAILED_COUNT",
                   requests |-> merge.requests]

\* one pass of the while loop.  Under set -e a counter increment with status
\* 1 ends the subshell with status 1, and the failed pipeline ends the script
\* with status 1 before the summary.
ProcessPR ==
    /\ batchPc = "loop"
    /\ cursor <= Len(DEPENDABOT_PRS)
    /\ \E approved \in {0, 1}, combined_status \in CombinedStatuses, merged \in BOOLEAN :
          LET pr == DEPENDABOT_PRS[cursor]
              pass == Pass(pr, approved, combined_status, merged)
              incremented == PostIncrement(loopCounts[pass.counter])
              slept == /\ incremented.status = 0
                       /\ pass.outcome = "merged"
                       /\ incremented.value < Len(DEPENDABOT_PRS)
                       /\ ~args.DRY_RUN
          IN  /\ loopCounts' = [loopCounts EXCEPT ![pass.counter] = incremented.value]
              /\ handled' = Append(handled, [number |-> pr.number, outcome |-> pass.outcome,
                                             approved |-> approved,
                                             combined_status |-> combined_status])
              /\ effects' = effects \o pass.requests
                     \o (IF slept THEN <<[does |-> "sleep", number |-> pr.number]>> ELSE <<>>)
              /\ IF incremented.status = 0
                 THEN /\ cursor' = cursor + 1
                      /\ UNCHANGED <<batchPc, batchExit>>
                 ELSE /\ batchPc' = "exited"
                      /\ batchExit' = 1
                      /\ UNCHANGED cursor
    /\ UNCHANGED <<args, pulls, DEPENDABOT_PRS,
                   classifierVars, serverVars, buildVars, rollbackVars>>

\* the loop has ended: the summary is printed from the counters of the
\* script's own shell, the report is written and the script exits
Summary ==
    /\ batchPc = "loop"
    /\ cursor > Len(DEPENDABOT_PRS)
    /\ LET counts == ParentCounts
           report == ~args.DRY_RUN /\ counts.MERGED_COUNT > 0
       IN  /\ effects' = effects
                  \o <<[does |-> "summary", number |-> 0,
                        total |-> Len(DEPENDABOT_PRS), merged |-> counts.MERGED_COUNT,
                        skipped |-> counts.SKIPPED_COUNT, failed |-> counts.FAILED_COUNT]>>
                  \o (IF report THEN <<[does |-> "report", number |-> 0]>> ELSE <<>>)
           /\ batchExit' = IF counts.FAILED_COUNT > 0 THEN 1 ELSE 0
    /\ batchPc' = "exited"
    /\ UNCHANGED <<args, pulls, DEPENDABOT_PRS, cursor, loopCounts, handled,
                   classifierVars, serverVars, buildVars, rollbackVars>>

BatchNext ==
    \/ FetchPRs
    \/ ProcessPR
    \/ Summary

BatchSpec == BatchInit /\ [][BatchNext]_vars

(***************************************************************************)
(* The rollback script: src/scripts/rollback.sh.  The script runs under    *)
(* set -e; kubectl, helm, docker, curl and the user's reply are the        *)
(* environment's.                                                          *)
(***************************************************************************)
\* the exit statuses of curl -s: 0, or the status of a transfer that failed
\* (host not resolved, connection refused, timeout)
CurlStatuses == {0, 6, 7, 28}

\* the options of the command line and the environment of the script, with
\* the PR number given
RollbackArgs ==
    [FORCE_ROLLBACK : BOOLEAN,
     HEALTH_CHECK_URL : {"", "https://app.com/health"},
     DEPLOYMENT_TYPE : {"kubernetes", "helm", "docker", "swarm"},
     SLACK_WEBHOOK : {"", "https://hooks.slack.com/services/T0"}]

\* ${status,,}
Lower(status) ==
    CASE status = "SUCCESS" -> "success"
      [] status = "WARNING" -> "warning"
      [] status = "FAILED" -> "failed"
      [] OTHER -> status

\* send_notification: the request it sends and the status it returns, which is
\* that of curl
send_notification(a, status, message, curl) ==
    IF a.SLACK_WEBHOOK # ""
    THEN [effects |-> <<[does |-> "POST slack", status |-> status, message |-> message,
                         curl |-> curl]>>,
          status |-> curl]
    ELSE [effects |-> <<>>, status |-> 0]

\* perform_rollback: ok is the result of rollback_kubernetes, rollback_helm or
\* rollback_docker
perform_rollback(a, ok) ==
    IF a.DEPLOYMENT_TYPE \in {"kubernetes", "helm", "docker"}
    THEN IF ok THEN 0 ELSE 1
    ELSE 1

\* the status main sets after perform_rollback; healthy is the result of the
\* health check after the rollback
RollbackOutcome(a, rolled, healthy) ==
    IF rolled = 0
    THEN IF a.HEALTH_CHECK_URL # ""
         THEN IF healthy THEN "SUCCESS" ELSE "WARNING"
         ELSE "SUCCESS"
    ELSE "FAILED"

\* the message main sets with the status
RollbackMessage(a, status) ==
    CASE status = "SUCCESS" /\ a.HEALTH_CHECK_URL # "" ->
             "Rollback completed successfully and application is healthy"
      [] status = "SUCCESS" /\ a.HEALTH_CHECK_URL = "" ->
             "Rollback completed (no health check URL provided)"
      [] status = "WARNING" -> "Rollback completed but health check failed"
      [] OTHER -> "Rollback procedure failed - manual intervention required"

\* the script starts main with its options parsed
RollbackInit ==
    /\ ClassifierIdle
    /\ ServerNotStarted
    /\ NoBuild
    /\ NoBatch
    /\ rollbackPc = "main"
    /\ rollbackArgs \in RollbackArgs
    /\ rollbackStatus = ""
    /\ rollbackEffects = <<>>
    /\ rollbackExit = -1

\* main up to the prompt: the health check before the rollback and, when the
\* application is healthy, the user's reply; read fails at the end of input
CheckCurrentHealth ==
    /\ rollbackPc = "main"
    /\ IF ~rollbackArgs.FORCE_ROLLBACK /\ rollbackArgs.HEALTH_CHECK_URL # ""
       THEN \E healthy \in BOOLEAN, REPLY \in {"y", "Y", "n", "", "eof"} :
               /\ rollbackEffects' = rollbackEffects
                      \o <<[does |-> "check_health", before |-> TRUE, ok |-> healthy]>>
                      \o (IF healthy THEN <<[does |-> "read", REPLY |-> REPLY]>> ELSE <<>>)
               /\ IF healthy /\ REPLY = "eof"
                  THEN rollbackPc' = "exited" /\ rollbackExit' = 1
                  ELSE IF healthy /\ REPLY \notin {"y", "Y"}
                  THEN rollbackPc' = "exited" /\ rollbackExit' = 0
                  ELSE rollbackPc' = "notify" /\ UNCHANGED rollbackExit
       ELSE rollbackPc' = "notify" /\ UNCHANGED <<rollbackEffects, rollbackExit>>
    /\ UNCHANGED <<rollbackArgs, rollbackStatus,
                   classifierVars, serverVars, buildVars, batchVars>>

\* the notification of the rollback's start; under set -e a failed curl ends
\* the script with curl's status
NotifyStart ==
    /\ rollbackPc = "notify"
    /\ \E curl \in CurlStatuses :
          LET sent == send_notification(rollbackArgs, "warning", "Rollback initiated", curl)
          IN  /\ rollbackEffects' = rollbackEffects \o sent.effects
              /\ IF sent.status = 0
                 THEN rollbackPc' = "rollback" /\ UNCHANGED rollbackExit
                 ELSE rollbackPc' = "exited" /\ rollbackExit' = sent.status
    /\ UNCHANGED <<rollbackArgs, rollbackStatus,
                   classifierVars, serverVars, buildVars, batchVars>>

\* perform_rollback and the health check after it
PerformRollback ==
    /\ rollbackPc = "rollback"
    /\ \E ok \in BOOLEAN, healthy \in BOOLEAN :
          LET rolled == perform_rollback(rollbackArgs, ok)
              checked == rolled = 0 /\ rollbackArgs.HEALTH_CHECK_URL # ""
          IN  /\ rollbackStatus' = RollbackOutcome(rollbackArgs, rolled, healthy)
              /\ rollbackEffects' = rollbackEffects
                     \o <<[does |-> "perform_rollback", status |-> rolled]>>
                     \o (IF checked
                         THEN <<[does |-> "check_health", before |-> FALSE, ok |-> healthy]>>
                         ELSE <<>>)
    /\ rollbackPc' = "report"
    /\ UNCHANGED <<rollbackArgs, rollbackExit,
                   classifierVars, serverVars, buildVars, batchVars>>

\* the report, the final notification and the exit; under set -e a failed
\* curl ends the script with curl's status
ReportAndExit ==
    /\ rollbackPc = "report"
    /\ \E curl \in CurlStatuses :
          LET sent == send_notification(rollbackArgs, Lower(rollbackStatus),
                                      RollbackMessage(rollbackArgs, rollbackStatus), curl)
          IN  /\ rollbackEffects' = rollbackEffects
                     \o <<[does |-> "report", status |-> rollbackStatus]>>
                     \o sent.effects
              /\ rollbackExit' = IF sent.status # 0 THEN sent.status
                                 ELSE IF rollbackStatus = "SUCCESS" THEN 0
                                 ELSE 1
    /\ rollbackPc' = "exited"
    /\ UNCHANGED <<rollbackArgs, rollbackStatus,
                   classifierVars, serverVars, buildVars, batchVars>>

RollbackNext ==
    \/ CheckCurrentHealth
    \/ NotifyStart
    \/ PerformRollback
    \/ ReportAndExit

RollbackSpec == RollbackInit /\ [][RollbackNext]_vars

(***************************************************************************)
(* What the specification of the classifier says, for the claims below.    *)
(***************************************************************************)
Done(o) == op = o /\ pc = "done"

\* the critical-package list of the specification
SpecCriticalPackages == {express, react, angular, vue, django, spring, rails}

IsCritical(packageName) ==
    packageName # Null /\ \E p \in SpecCriticalPackages : Contains(packageName, p)

IsInfrastructure(packageName, ecosystem) ==
    ecosystem = docker \/ (packageName # Null /\ Contains(packageName, kubernetes))

\* an update type that is not one of major, minor, patch
IsUnknownType(updateType) == updateType \notin {major, minor, patch}

\* base score by update type: major 70, minor 30, patch 10, unknown 0
SpecBaseScore(updateType) ==
    CASE updateType = major -> 70
      [] updateType = minor -> 30
      [] updateType = patch -> 10
      [] OTHER -> 0

\* base score with the security adjustment: -5 for a patch, +10 otherwise
SpecPlainScore(updateType, isSecurity) ==
    SpecBaseScore(updateType)
        + (IF isSecurity THEN (IF updateType = patch THEN -5 ELSE 10) ELSE 0)

\* the per-type eligibility rule for a descriptor whose tests passed
SpecEligible(updateType, isSecurity, riskScore) ==
    \/ updateType = patch /\ riskScore < 30
    \/ updateType = minor /\ isSecurity /\ riskScore < 40

\* a dot-separated sequence of non-negative integers
WellFormed(version) ==
    \A i \in 1..Len(SplitDot(version)) : IsInteger(SplitDot(version)[i])

\* component i of a well-formed version, a missing trailing component read as 0
Component(version, i) ==
    IF i <= Len(SplitDot(version)) THEN IntegerValue(SplitDot(version)[i]) ELSE 0

\* parseVersionDelta of the specification, on well-formed versions
SpecVersionDelta(oldVersion, newVersion) ==
    IF Component(oldVersion, 1) # Component(newVersion, 1) THEN major
    ELSE IF Component(oldVersion, 2) # Component(newVersion, 2) THEN minor
    ELSE patch

\* the ecosystem table of the specification, in its priority order
SpecPriority == <<npm, pip, maven, gradle, go, bundler, nuget, docker, github_actions>>

SpecFileMatches(filename, ecosystem) ==
    CASE ecosystem = npm ->
             EndsWith(filename, package_json) \/ EndsWith(filename, package_lock_json)
      [] ecosystem = pip ->
             \/ EndsWith(filename, requirements_txt)
             \/ EndsWith(filename, Pipfile)
             \/ EndsWith(filename, setup_py)
      [] ecosystem = maven -> EndsWith(filename, pom_xml)
      [] ecosystem = gradle -> EndsWith(filename, build_gradle)
      [] ecosystem = go -> EndsWith(filename, go_mod)
      [] ecosystem = bundler -> EndsWith(filename, Gemfile)
      [] ecosystem = nuget -> EndsWith(filename, dot_csproj)
      [] ecosystem = docker -> EndsWith(filename, Dockerfile)
      [] ecosystem = github_actions -> Contains(filename, github_workflows)
      [] OTHER -> FALSE

\* the positions in the priority order of the ecosystems the list matches
SpecMatched(files) ==
    {k \in 1..Len(SpecPriority) :
        \E i \in 1..Len(files) : SpecFileMatches(files[i], SpecPriority[k])}

SpecEcosystem(files) ==
    IF SpecMatched(files) = {} THEN unknown ELSE SpecPriority[MinOf(SpecMatched(files))]

(***************************************************************************)
(* Claims.                                                                 *)
(***************************************************************************)

\* C1: the auto-merge decision is false for every major update, whatever the
\* security flag, package, ecosystem, risk score and test results: in the
\* Groovy shouldAutoMerge, in the report of the shell categorizer, and in the
\* categorizer's AUTO_MERGE_ELIGIBLE rule for every risk score from 0 to 100.
C1_MajorNeverEligible ==
    /\ (Done("shouldAutoMerge") /\ input.updateInfo.updateType = major)
          => output = FALSE
    /\ (Done("categorize") /\ input.found /\ output.update_type = major)
          => output.auto_merge_eligible = false
    /\ Done("categorize")
          => \A risk_score \in 0..100 : \A is_security \in {true, false} :
                AUTO_MERGE_ELIGIBLE(major, risk_score, is_security) = false

\* a major security update whose tests passed was refused by shouldAutoMerge
C1_Witness ==
    /\ Done("shouldAutoMerge")
    /\ input.updateInfo.updateType = major
    /\ input.updateInfo.isSecurityUpdate
    /\ input.allPassed
    /\ output = FALSE

\* C2: shouldAutoMerge returns false whenever the tests did not all pass, for
\* every update type, security flag and package name.
C2_FailedTestsNeverEligible ==
    (Done("shouldAutoMerge") /\ ~input.allPassed) => output = FALSE

\* a plain patch of lodash was refused only because its tests failed
C2_Witness ==
    /\ Done("shouldAutoMerge")
    /\ ~input.allPassed
    /\ input.updateInfo.updateType = patch
    /\ input.updateInfo.packageName = lodash
    /\ ~input.updateInfo.isSecurityUpdate
    /\ output = FALSE

\* C3: for a non-major update whose tests passed, the decision is true exactly
\* when the update is a patch with risk score below 30, or a minor security
\* update with risk score below 40: for shouldAutoMerge (on the score
\* calculateRiskScore gives) and for the report of the shell categorizer.
\* Stated here for the minor and patch updates; the updates of unknown type,
\* which the rule also refuses, are the subject of C4.
C3_PerTypeRule ==
    /\ (Done("shouldAutoMerge") /\ input.allPassed
            /\ input.updateInfo.updateType \in {minor, patch})
          => (output = SpecEligible(input.updateInfo.updateType,
                                    input.updateInfo.isSecurityUpdate,
                                    calculateRiskScore(input.updateInfo)))
    /\ (Done("categorize") /\ input.found /\ output.update_type \in {minor, patch})
          => ((output.auto_merge_eligible = true)
                = SpecEligible(output.update_type, output.is_security = true,
                               output.risk_score))

\* C4: an update whose type is unknown, or was never derived, is never
\* auto-merge eligible, even with all tests passed and a risk score of 0.
C4_UnknownNeverEligible ==
    /\ (Done("shouldAutoMerge") /\ IsUnknownType(input.updateInfo.updateType))
          => output = FALSE
    /\ (Done("categorize") /\ input.found /\ IsUnknownType(output.update_type))
          => output.auto_merge_eligible = false

\* C5: the risk score is an integer from 0 to 100 for every update type,
\* security flag, package name and ecosystem, in calculateRiskScore, in
\* calculate_risk_score and in the report of the shell categorizer.
C5_RiskScoreInRange ==
    /\ Done("calculateRiskScore") => output \in 0..100
    /\ Done("calculate_risk_score") => output \in 0..100
    /\ (Done("categorize") /\ input.found) => output.risk_score \in 0..100

\* a major security update of react-express in the docker ecosystem, whose
\* adjustments add up to 115, was capped at 100
C5_Witness ==
    /\ Done("calculate_risk_score")
    /\ input.args.update_type = major
    /\ input.args.is_security = true
    /\ input.args.package_name = react_express
    /\ input.args.ecosystem = docker
    /\ output = 100

\* C6: for every pair of well-formed versions the update type is the one
\* computed on integer components with missing trailing components read as 0,
\* in determineUpdateType and in determine_update_type.
C6_IntegerComponents ==
    /\ (Done("determineUpdateType")
            /\ WellFormed(input.oldVersion) /\ WellFormed(input.newVersion))
          => output = SpecVersionDelta(input.oldVersion, input.newVersion)
    /\ (Done("determine_update_type")
            /\ WellFormed(input.old_version) /\ WellFormed(input.new_version))
          => output = SpecVersionDelta(input.old_version, input.new_version)

\* C7: when either version is not a dot-separated sequence of non-negative
\* integers, the update type is unknown and nothing is thrown; a PR whose title
\* carries such a version is reported with exit status 0, update type unknown,
\* risk score 0 and not auto-merge eligible.
C7_MalformedIsUnknown ==
    /\ (Done("determineUpdateType")
            /\ ~(WellFormed(input.oldVersion) /\ WellFormed(input.newVersion)))
          => output = unknown
    /\ (Done("determine_update_type")
            /\ ~(WellFormed(input.old_version) /\ WellFormed(input.new_version)))
          => output = unknown
    /\ (Done("categorize") /\ input.found
            /\ \E p \in PackageNames : \E o \in TitleVersions : \E n \in TitleVersions :
                  /\ input.PR_DATA.title = Title(p, o, n)
                  /\ ~(WellFormed(o) /\ WellFormed(n)))
          => /\ output.exit = 0
             /\ output.update_type = unknown
             /\ output.risk_score = 0
             /\ output.auto_merge_eligible = false

\* C8: for a file list that matches more than one ecosystem, the ecosystem
\* detected is the first of them in the priority order npm, pip, maven, gradle,
\* go, bundler, nuget, docker, github-actions, whatever the order of the files.
C8_PriorityOrder ==
    /\ (Done("detectEcosystem") /\ Cardinality(SpecMatched(input.files)) > 1)
          => output = SpecEcosystem(input.files)
    /\ (Done("categorize") /\ input.found
            /\ Cardinality(SpecMatched(input.PR_DATA.files)) > 1)
          => output.ecosystem = SpecEcosystem(input.PR_DATA.files)

\* C9: for a file list that matches exactly one ecosystem of the table the
\* ecosystem detected is that one, for each of the nine ecosystems; a list that
\* matches none gives unknown.
C9_SingleEcosystem ==
    /\ (Done("detectEcosystem") /\ Cardinality(SpecMatched(input.files)) <= 1)
          => output = SpecEcosystem(input.files)
    /\ (Done("categorize") /\ input.found
            /\ Cardinality(SpecMatched(input.PR_DATA.files)) <= 1)
          => output.ecosystem = SpecEcosystem(input.PR_DATA.files)

\* C10: for a package that is neither critical nor infrastructure the risk
\* score is the base score of the update type (major 70, minor 30, patch 10,
\* unknown 0), minus 5 for a security patch and plus 10 for a security update
\* of any other type, in calculateRiskScore and in calculate_risk_score.
C10_PlainScore ==
    /\ (Done("calculateRiskScore")
            /\ ~IsCritical(input.updateInfo.packageName)
            /\ ~IsInfrastructure(input.updateInfo.packageName, input.updateInfo.ecosystem))
          => output = SpecPlainScore(input.updateInfo.updateType,
                                     input.updateInfo.isSecurityUpdate)
    /\ (Done("calculate_risk_score")
            /\ ~IsCritical(input.args.package_name)
            /\ ~IsInfrastructure(input.args.package_name, input.args.ecosystem))
          => output = SpecPlainScore(input.args.update_type, input.args.is_security = true)

\* a security patch of lodash in the npm ecosystem scored 5
C10_Witness ==
    /\ Done("calculateRiskScore")
    /\ input.updateInfo.updateType = patch
    /\ input.updateInfo.isSecurityUpdate
    /\ input.updateInfo.packageName = lodash
    /\ input.updateInfo.ecosystem = npm
    /\ output = 5

\* C11: the criticality adjustment adds exactly 20 when the package name
\* contains at least one of express, react, angular, vue, django, spring, rails,
\* once however many of them it contains, and nothing otherwise: for a package
\* that is not infrastructure the score is the plain score plus that adjustment,
\* in calculateRiskScore and in calculate_risk_score.
C11_CriticalAddsTwenty ==
    /\ (Done("calculateRiskScore")
            /\ ~IsInfrastructure(input.updateInfo.packageName, input.updateInfo.ecosystem))
          => output = SpecPlainScore(input.updateInfo.updateType,
                                     input.updateInfo.isSecurityUpdate)
                        + (IF IsCritical(input.updateInfo.packageName) THEN 20 ELSE 0)
    /\ (Done("calculate_risk_score")
            /\ ~IsInfrastructure(input.args.package_name, input.args.ecosystem))
          => output = SpecPlainScore(input.args.update_type, input.args.is_security = true)
                        + (IF IsCritical(input.args.package_name) THEN 20 ELSE 0)

\* C12: the infrastructure adjustment adds exactly 15 when the ecosystem is
\* docker or the package name contains kubernetes, once when both hold: for a
\* package that is not critical the score is the plain score plus that
\* adjustment, in calculateRiskScore and in calculate_risk_score.
C12_InfrastructureAddsFifteen ==
    /\ (Done("calculateRiskScore") /\ ~IsCritical(input.updateInfo.packageName))
          => output = SpecPlainScore(input.updateInfo.updateType,
                                     input.updateInfo.isSecurityUpdate)
                        + (IF IsInfrastructure(input.updateInfo.packageName,
                                               input.updateInfo.ecosystem)
                           THEN 15 ELSE 0)
    /\ (Done("calculate_risk_score") /\ ~IsCritical(input.args.package_name))
          => output = SpecPlainScore(input.args.update_type, input.args.is_security = true)
                        + (IF IsInfrastructure(input.args.package_name, input.args.ecosystem)
                           THEN 15 ELSE 0)

\* C13: the risk level is high for a score of 70 or more, medium for 40..69,
\* low for 20..39 and minimal for 0..19, so that 70, 40 and 20 each fall in the
\* higher band: in every report of the categorizer, and for every score 0..100.
SpecRiskLevelHolds(score, level) ==
    /\ level = high <=> score >= 70
    /\ level = medium <=> (score >= 40 /\ score <= 69)
    /\ level = low <=> (score >= 20 /\ score <= 39)
    /\ level = minimal <=> (score >= 0 /\ score <= 19)

C13_RiskLevelBands ==
    (Done("categorize") /\ input.found)
        => /\ SpecRiskLevelHolds(output.risk_score, output.risk_level)
           /\ \A score \in 0..100 : SpecRiskLevelHolds(score, RISK_LEVEL(score))

C13_Witness ==
    /\ Done("categorize")
    /\ input.found
    /\ output.risk_score = 40
    /\ output.risk_level = medium

\* C14: getDeploymentStrategy plans blue-green through staging, canary and
\* production with approval for a risk score above 70; canary through staging
\* and production at 10 percent without approval for a score above 40 and up to
\* 70; rolling through production only without approval for a score up to 40.
\* canaryPercentage is a key of the canary plan only, and approval is required
\* by the blue-green plan only.
C14_DeploymentPlan ==
    Done("getDeploymentStrategy") =>
        LET riskScore == calculateRiskScore(input.updateInfo)
        IN  /\ riskScore > 70 =>
                  /\ output.strategy = blue_green
                  /\ output.stages = <<staging, canary, production>>
                  /\ output.approvalRequired = TRUE
            /\ (riskScore > 40 /\ riskScore <= 70) =>
                  /\ output.strategy = canary
                  /\ output.stages = <<staging, production>>
                  /\ "canaryPercentage" \in DOMAIN output
                  /\ output.canaryPercentage = 10
                  /\ output.approvalRequired = FALSE
            /\ riskScore <= 40 =>
                  /\ output.strategy = rolling
                  /\ output.stages = <<production>>
                  /\ output.approvalRequired = FALSE
            /\ "canaryPercentage" \in DOMAIN output <=> output.strategy = canary
            /\ output.approvalRequired <=> output.strategy = blue_green

C14_Witness ==
    /\ Done("getDeploymentStrategy")
    /\ calculateRiskScore(input.updateInfo) = 70
    /\ output.strategy = canary
    /\ output.canaryPercentage = 10

\* C15 as stated: at a risk score of exactly 40 and of exactly 50 the plan of
\* getDeploymentStrategy and the deployment_strategy of the categorizer name
\* different strategies.
C15_DifferAt40And50 ==
    (Done("getDeploymentStrategy") /\ calculateRiskScore(input.updateInfo) \in {40, 50})
        => output.strategy # deployment_strategy(calculateRiskScore(input.updateInfo))

\* C15 amended: at a risk score of exactly 40 and of exactly 50 the plan of
\* getDeploymentStrategy and the deployment_strategy of the categorizer name
\* the same strategy, rolling at 40 and canary at 50.
C15_AgreeAt40And50 ==
    /\ Done("getDeploymentStrategy") =>
          LET riskScore == calculateRiskScore(input.updateInfo)
          IN  /\ riskScore = 40 => /\ output.strategy = rolling
                                   /\ deployment_strategy(riskScore) = rolling
              /\ riskScore = 50 => /\ output.strategy = canary
                                   /\ deployment_strategy(riskScore) = canary
    /\ (Done("categorize") /\ input.found) =>
          /\ output.risk_score = 40 => output.deployment_strategy = rolling
          /\ output.risk_score = 50 => output.deployment_strategy = canary

C15_Witness ==
    /\ Done("getDeploymentStrategy")
    /\ calculateRiskScore(input.updateInfo) = 40
    /\ output.strategy = rolling
    /\ deployment_strategy(40) = rolling

\* The scenario of C16: the update of axios from 1.2.0 to 1.3.0, a security
\* update outside the docker ecosystem, read by the categorizer from a PR, or
\* given to shouldAutoMerge as a descriptor with the tests passed.
AxiosCategorized ==
    /\ Done("categorize")
    /\ input.found
    /\ output.package_name = axios
    /\ output.old_version = <<"1", ".", "2", ".", "0">>
    /\ output.new_version = <<"1", ".", "3", ".", "0">>
    /\ output.is_security = true
    /\ output.ecosystem # docker

AxiosDescriptor ==
    /\ Done("shouldAutoMerge")
    /\ input.updateInfo.packageName = axios
    /\ input.updateInfo.updateType = minor
    /\ input.updateInfo.isSecurityUpdate
    /\ input.allPassed

AxiosVersions ==
    /\ input.oldVersion = <<"1", ".", "2", ".", "0">>
    /\ input.newVersion = <<"1", ".", "3", ".", "0">>

\* C16 as stated: the security update of axios from 1.2.0 to 1.3.0 with the
\* tests passed is a minor update of risk score 40 and risk level medium, and
\* is eligible for auto-merge.
C16_AxiosEligible ==
    /\ AxiosCategorized =>
          /\ output.update_type = minor
          /\ output.risk_score = 40
          /\ output.risk_level = medium
          /\ output.auto_merge_eligible = true
    /\ AxiosDescriptor =>
          /\ calculateRiskScore(input.updateInfo) = 40
          /\ output = TRUE
    /\ (Done("determineUpdateType") /\ AxiosVersions) => output = minor

\* C16 amended: the security update of axios from 1.2.0 to 1.3.0 with the
\* tests passed is a minor update of risk score 40 and risk level medium, and
\* is not eligible for auto-merge.
C16_AxiosNotEligible ==
    /\ AxiosCategorized =>
          /\ output.update_type = minor
          /\ output.risk_score = 40
          /\ output.risk_level = medium
          /\ output.auto_merge_eligible = false
    /\ AxiosDescriptor =>
          /\ calculateRiskScore(input.updateInfo) = 40
          /\ output = FALSE
    /\ (Done("determineUpdateType") /\ AxiosVersions) => output = minor

C16_Witness ==
    /\ AxiosCategorized
    /\ output.risk_score = 40
    /\ output.auto_merge_eligible = false

\* The operations that classify a PR: all but updatePRStatus, which reports.
Classifying == op # "updatePRStatus"

C19_SameVersionIsPatch ==
    /\ (Done("determineUpdateType")
            /\ WellFormed(input.oldVersion)
            /\ input.newVersion = input.oldVersion)
          => output = patch
    /\ (Done("determine_update_type")
            /\ WellFormed(input.old_version)
            /\ input.new_version = input.old_version)
          => output = patch

C19_Witness ==
    /\ Done("determineUpdateType")
    /\ input.oldVersion = <<"1">>
    /\ input.newVersion = <<"1">>
    /\ output = patch

\* C20: the risk score is monotonic in the severity of the update: of three
\* descriptors that differ in the update type only, the major one scores at
\* least what the minor one scores, and the minor one at least what the patch
\* one scores, for every security flag, package name and ecosystem, in
\* calculateRiskScore and in calculate_risk_score.
C20_MonotonicInSeverity ==
    /\ Done("calculateRiskScore") =>
          LET score(type) ==
                  calculateRiskScore([input.updateInfo EXCEPT !.updateType = type])
          IN  /\ input.updateInfo.updateType = major => output >= score(minor)
              /\ input.updateInfo.updateType = minor =>
                    (score(major) >= output /\ output >= score(patch))
              /\ input.updateInfo.updateType = patch => score(minor) >= output
    /\ Done("calculate_risk_score") =>
          LET score(type) ==
                  calculate_risk_score(type, input.args.is_security,
                                       input.args.package_name, input.args.ecosystem)
          IN  /\ input.args.update_type = major => output >= score(minor)
              /\ input.args.update_type = minor =>
                    (score(major) >= output /\ output >= score(patch))
              /\ input.args.update_type = patch => score(minor) >= output

C20_Witness ==
    /\ Done("calculate_risk_score")
    /\ input.args.update_type = minor
    /\ input.args.is_security = true
    /\ input.args.package_name = react_express
    /\ input.args.ecosystem = docker
    /\ output = 75

(***************************************************************************)
(* The sample Express application: the last request and its response.      *)
(***************************************************************************)
IsLogin == request.method = "POST" /\ request.url = "/api/auth/login"

IsData == request.method = "GET" /\ request.url = "/api/data"

IsHealth == request.method = "GET" /\ request.url = "/health"

\* a field that is absent or empty
Missing(value) == value.type = "undefined" \/ value.text = ""

\* C21: a login without username or without password is answered 400 with
\* error 'Username and password required'; it is answered 200 with a token and
\* expiresIn 3600 exactly when the username is 'admin' and the password is
\* 'password123'; every other pair of username and password is answered 401
\* with error 'Invalid credentials'.
C21_LoginContract ==
    IsLogin =>
        LET username == request.body.username
            password == request.body.password
        IN  IF Missing(username) \/ Missing(password)
            THEN response = [status |-> 400,
                             body |-> [error |-> "Username and password required"]]
            ELSE IF username = Str("admin") /\ password = Str("password123")
            THEN /\ response.status = 200
                 /\ response.body.expiresIn = 3600
                 /\ response.body.token \in issued
            ELSE response = [status |-> 401, body |-> [error |-> "Invalid credentials"]]

\* the request carries a bearer token that a login issued and that was good
\* when the request was received
CarriesIssuedToken ==
    /\ request.authorization.scheme = "Bearer"
    /\ request.authorization.token \in issued
    /\ jwt_valid(request.authorization.token, JwtSecret(env), request.timestamp)

\* C22: GET /api/data is protected: a request without Authorization header,
\* or with a bearer token that is invalid or expired, is answered 401, and
\* only a request that carries a token issued by a successful login is
\* answered 200.
C22_DataIsProtected ==
    IsData =>
        /\ response.status = 200 => CarriesIssuedToken
        /\ (running /\ ~CarriesIssuedToken) => response.status = 401

\* C23: whatever requests came before, GET /health is answered 200 with
\* status 'healthy'.
C23_HealthAlwaysAnswers ==
    IsHealth =>
        /\ response.status = 200
        /\ response.body.status = "healthy"

\* C24: when the external call of GET /api/data fails, the response is 500
\* with the body {error: 'Internal server error'} and nothing else; when it
\* succeeds, the response is 200 and its body holds the title and the body of
\* the upstream data, as far as it has them, a generated timestamp and a
\* generated id, and nothing else.
C24_DataResponse ==
    (IsData /\ external.called) =>
        IF ~external.ok
        THEN response = [status |-> 500, body |-> [error |-> "Internal server error"]]
        ELSE /\ response.status = 200
             /\ DOMAIN response.body =
                    (DOMAIN external.data \cap {"title", "body"}) \cup {"timestamp", "id"}
             /\ \A k \in DOMAIN external.data \cap {"title", "body"} :
                    response.body[k] = external.data[k]
             /\ response.body.timestamp.time = request.timestamp
             /\ response.body.id \in Uuids

C24_Witness ==
    /\ IsData
    /\ external.called
    /\ ~external.ok
    /\ external.message = "Network error"
    /\ response.status = 500

(***************************************************************************)
(* The pipelines' claims.                                                  *)
(***************************************************************************)
\* the steps of the stage started
Ran(name) ==
    \E i \in 1..Len(buildLog) : buildLog[i].stage = name /\ buildLog[i].step = "begin"

\* the build reached the command
Called(command) == \E i \in 1..Len(buildLog) : buildLog[i].step = command

\* the command ran in the stage and exited 0
Succeeded(name, command) ==
    \E i \in 1..Len(buildLog) :
        buildLog[i].stage = name /\ buildLog[i].step = command /\ buildLog[i].exit = 0

MergeCalled == Called("gh pr merge --squash") \/ Called("curl -X PUT merge")

UnitTestsPassed ==
    Succeeded("Fast Validation", "npm test") \/ Succeeded("Quality Gates", "npm test")

\* C25: in the pipelines that merge by themselves the merge call is reached
\* only in a build whose unit tests ran and passed
C25_MergeOnlyAfterTestsPassed == MergeCalled => UnitTestsPassed

\* the build runs the pull request pipeline
PullRequestPipeline ==
    \/ pipeline.file = "part_000"
    \/ pipeline.file = "Jenkinsfile" /\ IsPRBuild

\* C26: in a build of the pull request pipeline that ended with every stage
\* succeeded, Auto-Merge Decision ran exactly if PIPELINE_TYPE is not
\* major-update, and it then approved and merged the pull request; the build of
\* a major update never reaches the merge call
C26_AutoMergeUnlessMajor ==
    /\ (position = "finished" /\ PullRequestPipeline /\ currentBuild.result = "SUCCESS") =>
          IF params.PIPELINE_TYPE # "major-update"
          THEN /\ Ran("Auto-Merge Decision")
               /\ Succeeded("Auto-Merge Decision", "curl -X POST reviews APPROVE")
               /\ Succeeded("Auto-Merge Decision", "curl -X PUT merge")
          ELSE ~Ran("Auto-Merge Decision")
    /\ (PullRequestPipeline /\ params.PIPELINE_TYPE = "major-update") => ~MergeCalled

Began(i, name) == buildLog[i].stage = name /\ buildLog[i].step = "begin"

Approved(i, name) ==
    buildLog[i].stage = name /\ buildLog[i].step = "input" /\ buildLog[i].out = "approved"

\* C27: a major update is deployed only after a manual approval in the same
\* build: in the pull request pipeline Deploy starts for PIPELINE_TYPE
\* major-update only after the input of Approval Gate was approved, and in the
\* major update pipeline Production Deployment starts only after Staging
\* Deployment, Staging Validation and Manual Review Gate ran in that order, the
\* input of the gate was approved and no step failed
C27_ApprovalBeforeDeployment ==
    /\ (PullRequestPipeline /\ params.PIPELINE_TYPE = "major-update") =>
          \A j \in 1..Len(buildLog) :
              Began(j, "Deploy") => \E i \in 1..(j - 1) : Approved(i, "Approval Gate")
    /\ pipeline.file = "major-update" =>
          \A m \in 1..Len(buildLog) :
              Began(m, "Production Deployment") =>
                  /\ \E i, j, k, l \in 1..(m - 1) :
                        /\ i < j /\ j < k /\ k < l
                        /\ Began(i, "Staging Deployment")
                        /\ Began(j, "Staging Validation")
                        /\ Began(k, "Manual Review Gate")
                        /\ Approved(l, "Manual Review Gate")
                  /\ \A i \in 1..(m - 1) : ~buildLog[i].fails

\* a major update of the pull request pipeline was approved and deployed
C27_Witness ==
    /\ position = "finished"
    /\ pipeline.file = "Jenkinsfile"
    /\ params.PIPELINE_TYPE = "major-update"
    /\ Ran("Approval Gate")
    /\ Ran("Deploy")

\* C28: a build of the Jenkinsfile for a major update whose Approval Gate
\* input was approved has run Deploy when it ends
C28_ApprovedIsDeployed ==
    (/\ position = "finished"
     /\ pipeline.file = "Jenkinsfile"
     /\ params.PIPELINE_TYPE = "major-update"
     /\ \E i \in 1..Len(buildLog) : Approved(i, "Approval Gate"))
    => Ran("Deploy")

\* a step of the stage failed
FailedIn(name) == \E i \in 1..Len(buildLog) : buildLog[i].stage = name /\ buildLog[i].fails

\* C29: a build of the pull request pipeline in which Deploy or
\* Post-Deployment Verification failed has run Rollback Ready and posted the
\* rollback comment when it ends
C29_RollbackAfterFailedDeployment ==
    (/\ position = "finished"
     /\ PullRequestPipeline
     /\ FailedIn("Deploy") \/ FailedIn("Post-Deployment Verification"))
    => /\ Ran("Rollback Ready")
       /\ \E i \in 1..Len(buildLog) :
             buildLog[i].stage = "Rollback Ready" /\ buildLog[i].step = "curl -X POST comments"

\* the stages from Categorize Update to Rollback Ready
PullRequestPath ==
    {JenkinsfileStages[i] : i \in 1..Len(JenkinsfileStages)} \ ({"Initialize"} \cup DirectPushDeploy)

DirectPathRan == \E name \in DirectPushDeploy : Ran(name)

PullRequestPathRan == \E name \in PullRequestPath : Ran(name)

DirectPush == ~params.IS_PR_BUILD /\ params.PR_NUMBER = ""

AuditFailed ==
    \E i \in 1..Len(buildLog) :
        /\ buildLog[i].stage = "Security Scanning"
        /\ buildLog[i].step = "npm audit"
        /\ buildLog[i].exit # 0

\* C31: in a build of the pull request pipeline whose npm audit reported
\* vulnerabilities, a security patch fails in Security Scanning and is
\* neither merged nor deployed, while a major update goes on to the next stage
C31_AuditStopsSecurityPatch ==
    (PullRequestPipeline /\ AuditFailed) =>
        IF params.PIPELINE_TYPE = "security-patch"
        THEN /\ FailedIn("Security Scanning")
             /\ currentBuild.result = "FAILURE"
             /\ ~MergeCalled
             /\ ~Ran("Auto-Merge Decision")
             /\ ~Ran("Deploy")
        ELSE /\ params.PIPELINE_TYPE = "major-update"
             /\ ~FailedIn("Security Scanning")
             /\ position = "finished" => Ran("Quality Gates")

\* the build of a security patch ended after its audit reported vulnerabilities
C31_Witness ==
    /\ position = "finished"
    /\ pipeline.file = "Jenkinsfile"
    /\ params.PIPELINE_TYPE = "security-patch"
    /\ AuditFailed

(***************************************************************************)
(* The batch merge script                                                  *)
(***************************************************************************)
\* the pull request has a label of this name
HasLabel(pr, name) == \E i \in 1..Len(pr.labels) : pr.labels[i] = name

\* the fetched pull request of this number
Pull(number) == pulls[CHOOSE k \in 1..Len(pulls) : pulls[k].number = number]

\* the merge request was sent for the pull request of this number
MergeRequested(number) ==
    \E i \in 1..Len(effects) : effects[i].does = "PUT merge" /\ effects[i].number = number

\* C32: the merge request is sent for a pull request only if Dependabot wrote
\* it, it is open, its mergeable is not false, it has the label
\* "<type>-update" unless the type is all, it has neither the do-not-merge nor
\* the work-in-progress label, it has an APPROVED review when the status
\* asked for is approved, and the combined status of its head commit is
\* success.
C32_MergeOnlyEligible ==
    \A j \in 1..Len(handled) :
        MergeRequested(handled[j].number) =>
            LET pr == Pull(handled[j].number)
            IN  /\ pr.login \in {"dependabot[bot]", "dependabot-preview[bot]"}
                /\ pr.state = "open"
                /\ pr.mergeable # "false"
                /\ args.UPDATE_TYPE = all_ \/ HasLabel(pr, args.UPDATE_TYPE \o update_suffix)
                /\ ~HasLabel(pr, do_not_merge)
                /\ ~HasLabel(pr, work_in_progress)
                /\ args.STATUS = "approved" => handled[j].approved >= 1
                /\ handled[j].combined_status = "success"

C32_Witness ==
    /\ batchPc = "exited"
    /\ args.STATUS = "approved"
    /\ args.UPDATE_TYPE = patch
    /\ Len(pulls) = MaxPRs
    /\ \E j \in 1..Len(handled) : MergeRequested(handled[j].number)

\* C33: with --dry-run the script sends no merge request, takes no sleep
\* between merges and writes no report file, whatever pull requests it
\* fetched.
C33_DryRunChangesNothing ==
    (batchPc # "none" /\ args.DRY_RUN) =>
        \A i \in 1..Len(effects) : effects[i].does \notin {"PUT merge", "sleep", "report"}

C33_Witness ==
    /\ batchPc = "exited"
    /\ args.DRY_RUN
    /\ \E j \in 1..Len(handled) : handled[j].outcome = "merged"

\* the script printed its summary
SummaryPrinted == \E i \in 1..Len(effects) : effects[i].does = "summary"

\* the number of pull requests the loop merged, skipped or failed to merge
Handled(outcome) == Cardinality({j \in 1..Len(handled) : handled[j].outcome = outcome})

\* C34: when the script has ended, the loop has processed every Dependabot
\* pull request of the fetched list once, in the list's order, and the summary
\* was printed; a skipped pull request or a failed merge does not stop the
\* loop.
C34_EveryPRProcessedOnce ==
    batchPc = "exited" =>
        /\ Len(handled) = Len(DEPENDABOT_PRS)
        /\ \A j \in 1..Len(handled) : handled[j].number = DEPENDABOT_PRS[j].number
        /\ SummaryPrinted

\* C35: when the script has ended, the summary's Merged, Skipped and Failed
\* counts are the numbers of pull requests the loop merged, skipped and failed
\* to merge, their sum is the number of Dependabot pull requests found, and
\* the exit status is 1 if a merge attempt failed and 0 if none did.
C35_SummaryCountsAndExit ==
    batchPc = "exited" =>
        /\ \E i \in 1..Len(effects) :
              /\ effects[i].does = "summary"
              /\ effects[i].merged = Handled("merged")
              /\ effects[i].skipped = Handled("skipped")
              /\ effects[i].failed = Handled("failed")
              /\ effects[i].merged + effects[i].skipped + effects[i].failed = effects[i].total
              /\ effects[i].total = Len(DEPENDABOT_PRS)
        /\ batchExit = IF Handled("failed") > 0 THEN 1 ELSE 0

(***************************************************************************)
(* The rollback script                                                     *)
(***************************************************************************)
\* perform_rollback ran and returned this status
Rolled(status) ==
    \E i \in 1..Len(rollbackEffects) :
        rollbackEffects[i].does = "perform_rollback" /\ rollbackEffects[i].status = status

\* the health check after the rollback ran with this result
CheckedAfter(ok) ==
    \E i \in 1..Len(rollbackEffects) :
        /\ rollbackEffects[i].does = "check_health"
        /\ ~rollbackEffects[i].before
        /\ rollbackEffects[i].ok = ok

\* the rollback report was written
ReportWritten == \E i \in 1..Len(rollbackEffects) : rollbackEffects[i].does = "report"

\* the final notification was called for, and sent when a webhook is set
FinalNotified ==
    /\ ReportWritten
    /\ rollbackArgs.SLACK_WEBHOOK # "" =>
          \E i \in 1..Len(rollbackEffects) :
              /\ rollbackEffects[i].does = "POST slack"
              /\ rollbackEffects[i].message # "Rollback initiated"
              /\ rollbackEffects[i].curl = 0

\* C36: when the script has ended, its exit status is 0 if and only if
\* perform_rollback succeeded and either no health check URL was given or
\* the health check after the rollback passed; it is 1 when the rollback
\* failed, when the deployment type is not kubernetes, helm or docker, and
\* when the rollback succeeded but the health check after it failed, and in
\* these three cases the report was written and the final notification sent.
C36_RollbackExitStatus ==
    rollbackPc = "exited" =>
        /\ rollbackExit = 0 <=>
              /\ Rolled(0)
              /\ rollbackArgs.HEALTH_CHECK_URL = "" \/ CheckedAfter(TRUE)
        /\ \/ Rolled(1)
           \/ rollbackArgs.DEPLOYMENT_TYPE \notin {"kubernetes", "helm", "docker"}
           \/ Rolled(0) /\ CheckedAfter(FALSE)
           => rollbackExit = 1 /\ ReportWritten /\ FinalNotified
====
